---- MODULE Spec2Model ----
(***************************************************************************)
(* Terms-of-Service reconciliation and acceptance engine of                *)
(* conda_anaconda_tos: remote metadata fetch with its per-channel cache,   *)
(* the layered local acceptance store, reconciliation (get_one_tos), the   *)
(* classification of a batch (_gather_tos) and the acceptance workflow     *)
(* (render_interactive).                                                   *)
(***************************************************************************)
EXTENDS Integers, Sequences, FiniteSets, TLC

\* ---------------------------------------------------------------- bounds
\* Versions are publication timestamps; the model uses 1..MaxVersion.
MaxVersion == 2
\* The wall clock runs over 0..MaxTime.
MaxTime == 1
\* Number of changes of the remote endpoints while a command runs.
MaxEnv == 1

Channels == {"c1", "c2"}
Versions == 1..MaxVersion
Texts == {"t1", "t2"}
Times == 0..MaxTime

\* path.py SEARCH_PATH, highest priority first (two of the built-in roots).
SEARCH_PATH == <<"site", "user">>
\* The roots a command can be told to write to (--site, --user).
TosRoots == {"site", "user"}

\* ------------------------------------------------------------ data model
\* What the endpoint <base_url>/terms.json answers: no ToS (or a request
\* failure), a payload that does not parse, or a metadata document.  The
\* schema allows extra fields; the one the engine can observe is a field
\* named tos_accepted ("unset" when the payload has none).
NoToS == [kind |-> "missing"]
Garbage == [kind |-> "invalid"]
RemoteToSMetadata ==
    [kind : {"remote"}, version : Versions, text : Texts,
     extra_tos_accepted : {"unset", "true", "false"}]
\* The documents the endpoints of the model publish: every version with
\* every text, and for the first of them also with the extra field.
Payloads ==
    {m \in RemoteToSMetadata :
        m.extra_tos_accepted = "unset" \/ (m.version = 1 /\ m.text = "t1")}
EndpointValues == {NoToS, Garbage} \cup Payloads

LocalToSMetadata ==
    [kind : {"local"}, version : Versions, text : Texts,
     base_url : Channels, tos_accepted : BOOLEAN, acceptance_timestamp : Times]

\* cache_timeout: a number of seconds or float("inf").
TimeoutIgnore == [inf |-> FALSE, secs |-> 0]
TimeoutOne == [inf |-> FALSE, secs |-> 1]
TimeoutInf == [inf |-> TRUE, secs |-> 0]
Timeouts == {TimeoutIgnore, TimeoutOne, TimeoutInf}

\* Cache file of a channel: absent, or a file with a modification time whose
\* content is empty (the "no ToS" sentinel) or a metadata document.
NoFile == [kind |-> "absent"]
EmptyContent == [kind |-> "empty"]
CacheFile(mtime, content) == [kind |-> "file", mtime |-> mtime, content |-> content]

None == [kind |-> "none"]

\* -------------------------------------------------------------- sequences
\* The element of a one-element set.  Only({e(x) : x \in {v}}) is e with x
\* bound to the value of v.
Only(S) == CHOOSE x \in S : TRUE

Reverse_Identity(s) == s

Reverse(s) == [i \in 1..Len(s) |-> s[Len(s) + 1 - i]]

\* The concatenation of f(s[1]), f(s[2]), ...
RECURSIVE FlatMap(_, _)
FlatMap(f(_), s) == IF s = <<>> THEN <<>> ELSE f(Head(s)) \o FlatMap(f, Tail(s))

SeqToSet(s) == {s[i] : i \in 1..Len(s)}

RECURSIVE Dedupe(_, _)
Dedupe(s, seen) ==
    IF s = <<>> THEN <<>>
    ELSE IF Head(s) \in seen THEN Dedupe(Tail(s), seen)
    ELSE <<Head(s)>> \o Dedupe(Tail(s), seen \cup {Head(s)})

\* ------------------------------------------------------------- models.py
\* _ToSMetadata.__ge__: metadata are ordered by version alone.
MetadataGe_Strict(a, b) == a.version > b.version

MetadataGe(a, b) == a.version >= b.version

PairLt_Reversed(p, q) == p.metadata.version > q.metadata.version

\* _MetadataPathPair.__lt__: pairs are ordered by their metadata's version.
PairLt(p, q) == p.metadata.version < q.metadata.version

LocalPair(metadata, path, remote) ==
    [kind |-> "LocalPair", metadata |-> metadata, path |-> path, remote |-> remote]

RemotePair(metadata) ==
    [kind |-> "RemotePair", metadata |-> metadata, path |-> None, remote |-> None]

\* pair.remote or pair.metadata (api.py accept_tos, models.py latest_text).
Latest_Metadata(pair) == pair.metadata

Latest(pair) == IF pair.remote # None THEN pair.remote ELSE pair.metadata

LatestText(pair) == Latest(pair).text

\* getattr(metadata, "tos_accepted", None): the declared field of a local
\* record, or the extra field of that name a remote payload may carry
\* (extra="allow" exposes extra fields as attributes).
GetattrTosAccepted(metadata) ==
    IF metadata.kind = "local"
    THEN (IF metadata.tos_accepted THEN "true" ELSE "false")
    ELSE metadata.extra_tos_accepted

\* --------------------------------------------------------------- path.py
\* get_search_path: the built-in roots followed by the caller's, each once.
\* The roots are taken to exist: a root that is no directory holds no file and
\* adds nothing to what get_channel_paths yields (see GetSearchPathIn).
GetSearchPath(extend_search_path) == Dedupe(SEARCH_PATH \o extend_search_path, {})

\* A directory: a root, or the directory of a channel under a root.
RootDir(tos_root) == [root |-> tos_root]
ChannelDir(tos_root, channel) == [root |-> tos_root, channel |-> channel]

GetSearchPathIn_NoIsDir(dirs, extend_search_path) ==
    Dedupe(SEARCH_PATH \o extend_search_path, {})

\* get_search_path on a file system whose directories are dirs: the roots
\* that are directories, each at its first occurrence.
GetSearchPathIn(dirs, extend_search_path) ==
    LET Existing(tos_root) == IF RootDir(tos_root) \in dirs THEN <<tos_root>> ELSE <<>>
    IN  Dedupe(FlatMap(Existing, SEARCH_PATH \o extend_search_path), {})

\* path.parent.mkdir(parents=True, exist_ok=True) of write_metadata
Mkdir(dirs, tos_root, channel) ==
    dirs \cup {RootDir(tos_root), ChannelDir(tos_root, channel)}

\* get_metadata_path: <root>/<hash(channel)>/<version>.json
GetMetadataPath(tos_root, channel, version) ==
    [root |-> tos_root, channel |-> channel, version |-> version]

\* sorted(dir.glob("*.json")): the paths of a set of files in file-name order.
RECURSIVE SortedPaths(_)
SortedPaths(paths) ==
    IF paths = {} THEN <<>>
    ELSE Only({<<first>> \o SortedPaths(paths \ {first}) :
               first \in {p \in paths : \A q \in paths : p.version <= q.version}})

\* get_channel_paths: the channel's files, root by root in search-path order.
GetChannelPaths(files, channel, extend_search_path) ==
    LET InRoot(r) ==
            SortedPaths({f.path : f \in {g \in files : g.path.root = r
                                                       /\ g.path.channel = channel}})
    IN  FlatMap(InRoot, GetSearchPath(extend_search_path))

\* -------------------------------------------------------------- local.py
\* read_metadata: the record stored at path, or None when there is no file
\* there or its content does not validate as a local record.
ReadMetadata(files, path) ==
    IF \E f \in files : f.path = path /\ f.metadata.kind = "local"
    THEN Only({LocalPair(f.metadata, path, None) : f \in {g \in files : g.path = path}})
    ELSE None

RECURSIVE Insert_BeforeEquals(_, _)
Insert_BeforeEquals(sorted, p) ==
    IF sorted = <<>> THEN <<p>>
    ELSE IF ~PairLt(sorted[Len(sorted)], p)
         THEN Insert_BeforeEquals(SubSeq(sorted, 1, Len(sorted) - 1), p)
                  \o <<sorted[Len(sorted)]>>
         ELSE sorted \o <<p>>

\* sorted(): a stable ascending sort by PairLt (insertion after the last
\* element that is not greater).
RECURSIVE Insert(_, _)
Insert(sorted, p) ==
    IF sorted = <<>> THEN <<p>>
    ELSE IF PairLt(p, sorted[Len(sorted)])
         THEN Insert(SubSeq(sorted, 1, Len(sorted) - 1), p) \o <<sorted[Len(sorted)]>>
         ELSE sorted \o <<p>>

RECURSIVE Sorted(_)
Sorted(s) ==
    IF s = <<>> THEN <<>>
    ELSE Only({Insert(front, s[Len(s)]) : front \in {Sorted(SubSeq(s, 1, Len(s) - 1))}})

\* get_local_metadata: the newest record of the channel over all roots, or
\* None for CondaToSMissingError.
GetLocalMetadata(files, channel, extend_search_path) ==
    LET Read(path) ==
            Only({IF p = None THEN <<>> ELSE <<p>> : p \in {ReadMetadata(files, path)}})
    IN  Only({IF metadata_pairs = <<>> THEN None
              ELSE Only({s[Len(s)] : s \in {Sorted(Reverse(metadata_pairs))}}) :
              metadata_pairs \in
                  {FlatMap(Read, GetChannelPaths(files, channel, extend_search_path))}})

\* The channels in the order of their directory names (the hashes).
HashOrder == <<"c1", "c2">>

\* sorted(root.glob("*/*.json")): the paths of a set of files ordered by
\* channel directory, then by file name.
SortedAllPaths(paths) ==
    LET InDir(channel) == SortedPaths({p \in paths : p.channel = channel})
    IN  FlatMap(InDir, HashOrder)

GetAllChannelPaths_BuiltIn(files, extend_search_path) ==
    LET InRoot(r) == SortedAllPaths({f.path : f \in {g \in files : g.path.root = r}})
    IN  FlatMap(InRoot, Dedupe(SEARCH_PATH, {}))

\* get_all_channel_paths: all record files, root by root in search-path order.
GetAllChannelPaths(files, extend_search_path) ==
    LET InRoot(r) == SortedAllPaths({f.path : f \in {g \in files : g.path.root = r}})
    IN  FlatMap(InRoot, GetSearchPath(extend_search_path))

\* get_local_metadatas: the valid records grouped by the channel of their
\* base_url, in order of first appearance; per channel the newest record.
GetLocalMetadatas(files, extend_search_path) ==
    LET Read(path) ==
            Only({IF p = None THEN <<>> ELSE <<p>> : p \in {ReadMetadata(files, path)}})
        Grouped(pairs) ==
            LET Channel(i) == <<pairs[i].metadata.base_url>>
                Newest(channel) ==
                    LET Of(pair) == pair.metadata.base_url = channel
                    IN  Only({<<[channel |-> channel, pair |-> s[Len(s)]]>> :
                              s \in {Sorted(Reverse(SelectSeq(pairs, Of)))}})
            IN  FlatMap(Newest,
                        Dedupe(FlatMap(Channel, [i \in DOMAIN pairs |-> i]), {}))
    IN  Only({Grouped(pairs) :
              pairs \in {FlatMap(Read, GetAllChannelPaths(files, extend_search_path))}})

\* A file whose bytes are not text in the encoding read_text uses.
Undecodable == [kind |-> "undecodable"]

\* write_metadata: the record and the file the call produces.
NewLocalMetadata(channel, metadata, tos_accepted, time) ==
    [kind |-> "local", version |-> metadata.version, text |-> metadata.text,
     base_url |-> channel, tos_accepted |-> tos_accepted,
     acceptance_timestamp |-> time]

WriteMetadata_DeletesOlder(files, tos_root, channel, metadata, tos_accepted, time) ==
    LET new == NewLocalMetadata(channel, metadata, tos_accepted, time)
        path == GetMetadataPath(tos_root, channel, new.version)
    IN  [files |-> {f \in files : f.path.root # tos_root \/ f.path.channel # channel}
                       \cup {[path |-> path, metadata |-> new]},
         pair |-> LocalPair(new, path, None)]

WriteMetadata(files, tos_root, channel, metadata, tos_accepted, time) ==
    LET new == NewLocalMetadata(channel, metadata, tos_accepted, time)
        path == GetMetadataPath(tos_root, channel, new.version)
    IN  [files |-> {f \in files : f.path # path} \cup {[path |-> path, metadata |-> new]},
         pair |-> LocalPair(new, path, None)]

\* --------------------------------------------------------- exceptions.py
\* An exception: its class and the function that raised it.
\* CondaToSInvalidError is a subclass of CondaToSMissingError;
\* CondaToSPermissionError is not.
Exc(type, raised_by) ==
    [kind |-> "exc", type |-> type, raised_by |-> raised_by, channels |-> <<>>]

BatchExc_FirstOnly(type, channels) ==
    [kind |-> "exc", type |-> type, raised_by |-> "render_interactive",
     channels |-> SubSeq(channels, 1, 1)]

\* CondaToSRejectedError(*channels), CondaToSNonInteractiveError(*channels)
BatchExc(type, channels) ==
    [kind |-> "exc", type |-> type, raised_by |-> "render_interactive",
     channels |-> channels]

IsMissingError_AnyError(e) == e # None

\* except CondaToSMissingError: the class and its subclass
IsMissingError(e) ==
    e # None /\ e.type \in {"CondaToSMissingError", "CondaToSInvalidError"}

\* get_local_metadata with its exceptions.  read_metadata catches
\* FileNotFoundError and ValidationError (and turns PermissionError); the
\* UnicodeDecodeError that read_text raises on bytes that are not text passes
\* through read_metadata and the list comprehension.
GetLocalMetadataOrRaise(files, channel, extend_search_path) ==
    Only({IF \E i \in DOMAIN paths :
                 \E f \in files : f.path = paths[i] /\ f.metadata = Undecodable
          THEN [exc |-> Exc("UnicodeDecodeError", "read_metadata"),
                pair |-> None]
          ELSE Only({[exc |-> IF local_pair = None
                              THEN Exc("CondaToSMissingError", "get_local_metadata")
                              ELSE None,
                      pair |-> local_pair] :
                     local_pair \in {GetLocalMetadata(files, channel, extend_search_path)}}) :
          paths \in {GetChannelPaths(files, channel, extend_search_path)}})

\* -------------------------------------------------------------- remote.py
\* not cache_timeout: None or zero seconds
Falsy(cache_timeout) ==
    cache_timeout = None \/ (~cache_timeout.inf /\ cache_timeout.secs = 0)

\* What the session answers in offline mode: it refuses the request with a
\* RuntimeError naming the offline mode.
OfflineRefusal == [kind |-> "offline"]

GetCachedEndpoint_Strict(file, cache_timeout, time) ==
    IF Falsy(cache_timeout) THEN FALSE
    ELSE IF file = NoFile THEN FALSE
    ELSE IF ~cache_timeout.inf /\ (time - file.mtime) > cache_timeout.secs THEN FALSE
    ELSE TRUE

GetCachedEndpoint_KeepsZero(file, cache_timeout, time) ==
    IF file = NoFile THEN FALSE
    ELSE IF Falsy(cache_timeout) THEN time = file.mtime
    ELSE IF ~cache_timeout.inf /\ (time - file.mtime) >= cache_timeout.secs THEN FALSE
    ELSE TRUE

GetCachedEndpoint_InfExpires(file, cache_timeout, time) ==
    IF Falsy(cache_timeout) THEN FALSE
    ELSE IF file = NoFile THEN FALSE
    ELSE IF (time - file.mtime) >= 1 THEN FALSE
    ELSE TRUE

\* get_cached_endpoint: TRUE when the cache file is to be used.
GetCachedEndpoint(file, cache_timeout, time) ==
    IF Falsy(cache_timeout) THEN FALSE
    ELSE IF file = NoFile THEN FALSE
    ELSE IF ~cache_timeout.inf /\ (time - file.mtime) >= cache_timeout.secs THEN FALSE
    ELSE TRUE

\* write_cached_endpoint: write_text replaces the content; touch creates an
\* empty file or, when the file exists, only sets its modification time.
WriteCachedEndpoint(file, metadata, time) ==
    IF metadata # None THEN CacheFile(time, metadata)
    ELSE IF file = NoFile THEN CacheFile(time, EmptyContent)
    ELSE [file EXCEPT !.mtime = time]

\* get_remote_metadata for one channel: file is its cache file, endpoint what
\* the network answers now, cache_denied whether the cache directory refuses
\* writes.  Yields the exception or the metadata, the cache file afterwards
\* and whether the network was asked.
GetRemoteMetadata(file, endpoint, cache_timeout, time, cache_denied) ==
    IF GetCachedEndpoint(file, cache_timeout, time)
    THEN IF file.content = EmptyContent
         THEN [exc |-> Exc("CondaToSMissingError", "get_remote_metadata"),
               metadata |-> None, cache |-> file, network |-> FALSE]
         ELSE [exc |-> None, metadata |-> file.content, cache |-> file,
               network |-> FALSE]
    ELSE IF cache_denied
         THEN [exc |-> Exc("CondaToSPermissionError", "write_cached_endpoint"),
               metadata |-> None, cache |-> file, network |-> endpoint # OfflineRefusal]
    ELSE IF endpoint = NoToS
         THEN [exc |-> Exc("CondaToSMissingError", "get_endpoint"),
               metadata |-> None, cache |-> WriteCachedEndpoint(file, None, time),
               network |-> TRUE]
    ELSE IF endpoint = OfflineRefusal
         THEN [exc |-> Exc("CondaToSMissingError", "get_remote_metadata"),
               metadata |-> None, cache |-> WriteCachedEndpoint(file, None, time),
               network |-> FALSE]
    ELSE IF endpoint = Garbage
         THEN [exc |-> Exc("CondaToSInvalidError", "get_remote_metadata"),
               metadata |-> None, cache |-> WriteCachedEndpoint(file, None, time),
               network |-> TRUE]
    ELSE [exc |-> None, metadata |-> endpoint,
          cache |-> WriteCachedEndpoint(file, endpoint, time), network |-> TRUE]

\* get_remote_metadata under context.offline: in offline mode the caller's
\* cache_timeout is replaced by float("inf") and the session refuses requests.
GetRemoteMetadataOffline(offline, file, endpoint, cache_timeout, time, cache_denied) ==
    GetRemoteMetadata(file, IF offline THEN OfflineRefusal ELSE endpoint,
                      IF offline THEN TimeoutInf ELSE cache_timeout, time, cache_denied)

\* -------------------------------------------------------- refused file access
\* CondaToSPermissionError(path, channel=None): the exception keeps the path
\* and, when one was passed, the channel in its message.  channels is <<>>
\* for a call without channel.
CondaToSPermissionError(raised_by, path, channels) ==
    [kind |-> "exc", type |-> "CondaToSPermissionError", raised_by |-> raised_by,
     channels |-> channels, path |-> path]

\* get_cache_path: <cache dir>/<hash(channel)>.cache
GetCachePath(channel) == [cache_of |-> channel]

\* What the file system can refuse: reading and writing the cache file,
\* reading and writing record files.
Refusals == {"cache_read", "cache_write", "store_read", "store_write"}

\* get_remote_metadata with the arguments its two raise sites pass: reading a
\* fresh cache file that cannot be read, and write_cached_endpoint.
GetRemoteMetadataRefused(file, endpoint, channel, cache_timeout, time, denied) ==
    IF GetCachedEndpoint(file, cache_timeout, time) /\ "cache_read" \in denied
    THEN [exc |-> CondaToSPermissionError("get_remote_metadata", GetCachePath(channel),
                                          <<channel>>),
          metadata |-> None, cache |-> file, network |-> FALSE]
    ELSE Only({IF r.exc # None /\ r.exc.type = "CondaToSPermissionError"
               THEN [r EXCEPT !.exc = CondaToSPermissionError("write_cached_endpoint",
                                                              GetCachePath(channel), <<channel>>)]
               ELSE r :
               r \in {GetRemoteMetadata(file, endpoint, cache_timeout, time,
                                        "cache_write" \in denied)}})

\* write_metadata when the file cannot be written.
WriteMetadataRefused(files, tos_root, channel, metadata, tos_accepted, time, denied) ==
    IF "store_write" \in denied
    THEN [exc |-> CondaToSPermissionError("write_metadata",
                                          GetMetadataPath(tos_root, channel, metadata.version),
                                          <<channel>>),
          files |-> files, pair |-> None]
    ELSE Only({[exc |-> None, files |-> w.files, pair |-> w.pair] :
               w \in {WriteMetadata(files, tos_root, channel, metadata, tos_accepted, time)}})

\* get_local_metadata when record files cannot be read: read_metadata raises
\* at the first path, and is given the path alone.
GetLocalMetadataRefused(files, channel, extend_search_path, denied) ==
    Only({IF "store_read" \in denied /\ paths # <<>>
          THEN [exc |-> CondaToSPermissionError("read_metadata", paths[1], <<>>),
                pair |-> None]
          ELSE Only({[exc |-> IF local_pair = None
                              THEN Exc("CondaToSMissingError", "get_local_metadata")
                              ELSE None,
                      pair |-> local_pair] :
                     local_pair \in {GetLocalMetadata(files, channel, extend_search_path)}}) :
          paths \in {GetChannelPaths(files, channel, extend_search_path)}})

\* ----------------------------------------------------------------- api.py
\* get_one_tos when get_local_metadata raised CondaToSMissingError: re-raise
\* the exception of the remote fetch, or return the remote metadata alone.
ReconcileNoLocal_LocalExc(remote_exc, remote_metadata) ==
    IF remote_exc # None
    THEN [exc |-> Exc("CondaToSMissingError", "get_local_metadata"), pair |-> None]
    ELSE [exc |-> None, pair |-> RemotePair(remote_metadata)]

ReconcileNoLocal(remote_exc, remote_metadata) ==
    IF remote_exc # None
    THEN [exc |-> remote_exc, pair |-> None]
    ELSE [exc |-> None, pair |-> RemotePair(remote_metadata)]

ReconcileLocal_NeedsRemote(local_pair, remote_metadata) ==
    IF remote_metadata = None
    THEN [exc |-> Exc("CondaToSMissingError", "get_remote_metadata"), pair |-> None]
    ELSE IF MetadataGe(local_pair.metadata, remote_metadata)
    THEN [exc |-> None, pair |-> local_pair]
    ELSE [exc |-> None,
          pair |-> LocalPair(local_pair.metadata, local_pair.path, remote_metadata)]

ReconcileLocal_AnyRemote(local_pair, remote_metadata) ==
    IF remote_metadata = None
    THEN [exc |-> None, pair |-> local_pair]
    ELSE [exc |-> None,
          pair |-> LocalPair(local_pair.metadata, local_pair.path, remote_metadata)]

\* get_one_tos when a local record exists: the local pair, with the remote
\* metadata attached when that is newer.
ReconcileLocal(local_pair, remote_metadata) ==
    IF remote_metadata = None \/ MetadataGe(local_pair.metadata, remote_metadata)
    THEN [exc |-> None, pair |-> local_pair]
    ELSE [exc |-> None,
          pair |-> LocalPair(local_pair.metadata, local_pair.path, remote_metadata)]

\* get_one_tos: the exception raised or the pair returned, the channel's
\* cache file afterwards, and what the remote fetch gave.
GetOneTos(files, file, endpoint, channel, tos_root, cache_timeout, time, cache_denied) ==
    LET Reconciled(r, local_pair) ==
            IF r.exc # None /\ ~IsMissingError(r.exc)
            THEN [exc |-> r.exc, pair |-> None]
            ELSE IF local_pair = None
            THEN ReconcileNoLocal(IF IsMissingError(r.exc) THEN r.exc ELSE None, r.metadata)
            ELSE ReconcileLocal(local_pair, r.metadata)
        Result(r, out) ==
            [exc |-> out.exc, pair |-> out.pair, cache |-> r.cache, fetched |-> r]
    IN  Only({Only({Result(r, out) : out \in {Reconciled(r, local_pair)}}) :
              r \in {GetRemoteMetadata(file, endpoint, cache_timeout, time, cache_denied)},
              local_pair \in {GetLocalMetadata(files, channel, <<tos_root>>)}})

\* The body shared by accept_tos and reject_tos: reconcile, then write the
\* latest metadata with the decision under tos_root.
DecideTos(g, files, channel, tos_root, tos_accepted, time, store_denied) ==
    IF g.exc # None
    THEN [exc |-> g.exc, files |-> files, cache |-> g.cache, pair |-> None,
          reconciled |-> None]
    ELSE IF store_denied
    THEN [exc |-> Exc("CondaToSPermissionError", "write_metadata"), files |-> files,
          cache |-> g.cache, pair |-> None, reconciled |-> g.pair]
    ELSE Only({[exc |-> None, files |-> w.files, cache |-> g.cache, pair |-> w.pair,
                reconciled |-> g.pair] :
               w \in {WriteMetadata(files, tos_root, channel, Latest(g.pair), tos_accepted,
                                    time)}})

\* accept_tos
AcceptTos(files, file, endpoint, channel, tos_root, cache_timeout, time, denied) ==
    Only({DecideTos(g, files, channel, tos_root, TRUE, time, "store" \in denied) :
          g \in {GetOneTos(files, file, endpoint, channel, tos_root, cache_timeout, time,
                           "cache" \in denied)}})

\* reject_tos
RejectTos_NoWrite(files, file, endpoint, channel, tos_root, cache_timeout, time, denied) ==
    Only({[d EXCEPT !.files = files] :
          d \in {DecideTos(GetOneTos(files, file, endpoint, channel, tos_root,
                                     cache_timeout, time, "cache" \in denied),
                           files, channel, tos_root, FALSE, time, "store" \in denied)}})

RejectTos(files, file, endpoint, channel, tos_root, cache_timeout, time, denied) ==
    Only({DecideTos(g, files, channel, tos_root, FALSE, time, "store" \in denied) :
          g \in {GetOneTos(files, file, endpoint, channel, tos_root, cache_timeout, time,
                           "cache" \in denied)}})

\* Channel(x).urls(): the URLs of a channel, one per subdir; for a multichannel
\* the URLs of every channel it stands for.
Subdirs == <<"linux-64", "noarch">>
Url(channel, subdir) == [base_url |-> channel, subdir |-> subdir]
Urls(channel) ==
    LET OfChannel(c) == [i \in DOMAIN Subdirs |-> Url(c, Subdirs[i])]
    IN  IF channel = "defaults" THEN FlatMap(OfChannel, <<"c1", "c2">>)
        ELSE OfChannel(channel)

\* Channel(url).base_url: the URL without its subdir.
BaseUrl(url) == url.base_url

\* get_channels: every input expanded into its URLs, each URL reduced to the
\* channel of its base URL, and the channels seen before skipped.
GetChannels_NotSeen(channels) ==
    LET Expand(channel) == [i \in DOMAIN Urls(channel) |-> BaseUrl(Urls(channel)[i])]
    IN  FlatMap(Expand, channels)

GetChannels(channels) ==
    LET Expand(channel) == [i \in DOMAIN Urls(channel) |-> BaseUrl(Urls(channel)[i])]
    IN  Dedupe(FlatMap(Expand, channels), {})

\* ---------------------------------------------------- api.py: CI detection
\* The environment variables _is_ci looks at, a few of each kind, in the
\* order of their tuples.
CI_BOOLEAN_VARS == <<"APPVEYOR", "CI", "TRAVIS">>
CI_PRESENCE_VARS == <<"JENKINS_URL">>
PARTIAL_CI_VARS == <<"BUILD_ID">>

\* os.getenv: <<>> for a variable that is not set (None), <<value>> otherwise.
Getenv(environ, var) == environ[var]

\* The truth value of what os.getenv returned: None and "" are falsy.
Truthy(var_value) == var_value # <<>> /\ var_value[1] # ""

\* conda.auxlib.type_coercion.boolify on what os.getenv returned: numbers by
\* their value, the words of BOOLISH_TRUE and BOOLISH_FALSE (str(None) is
\* "none"), and TypeCoercionError for any other text.
BOOLISH_TRUE == {"true", "yes", "on", "y"}
BOOLISH_FALSE == {"false", "off", "n", "no", "non", "none", ""}

Boolify(var_value) ==
    LET val == IF var_value = <<>> THEN "none" ELSE var_value[1]
    IN  IF val = "1" \/ val \in BOOLISH_TRUE THEN [exc |-> None, value |-> TRUE]
        ELSE IF val = "0" \/ val \in BOOLISH_FALSE THEN [exc |-> None, value |-> FALSE]
        ELSE [exc |-> Exc("TypeCoercionError", "boolify"), value |-> FALSE]

\* any(os.getenv(var) for var in vars)
AnySet(environ, vars) == \E i \in DOMAIN vars : Truthy(Getenv(environ, vars[i]))

\* _in_ci_container: a container indicator (process 1, CONTAINER set, or a
\* runtime named in /proc/self/cgroup, which may be unreadable) and a partial
\* CI variable.
InCiContainer(os) ==
    LET container_checks ==
            <<os.pid = 1, Truthy(Getenv(os.environ, "CONTAINER"))>>
            \o (IF os.cgroup = "docker" THEN <<TRUE>> ELSE <<>>)
    IN  (\E i \in DOMAIN container_checks : container_checks[i])
        /\ AnySet(os.environ, PARTIAL_CI_VARS)

\* The first loop of _is_ci: "return" False at the first variable with a
\* truthy value that boolify makes false; boolify may raise on the way.
RECURSIVE ExplicitFalse(_, _)
ExplicitFalse(environ, vars) ==
    IF vars = <<>> THEN [exc |-> None, returned |-> FALSE]
    ELSE IF ~Truthy(Getenv(environ, Head(vars))) THEN ExplicitFalse(environ, Tail(vars))
    ELSE IF Boolify(Getenv(environ, Head(vars))).exc # None
    THEN [exc |-> Boolify(Getenv(environ, Head(vars))).exc, returned |-> FALSE]
    ELSE IF ~Boolify(Getenv(environ, Head(vars))).value
    THEN [exc |-> None, returned |-> TRUE]
    ELSE ExplicitFalse(environ, Tail(vars))

\* The second loop: "return" True at the first variable boolify makes true.
RECURSIVE ExplicitTrue(_, _)
ExplicitTrue(environ, vars) ==
    IF vars = <<>> THEN [exc |-> None, returned |-> FALSE]
    ELSE IF Boolify(Getenv(environ, Head(vars))).exc # None
    THEN [exc |-> Boolify(Getenv(environ, Head(vars))).exc, returned |-> FALSE]
    ELSE IF Boolify(Getenv(environ, Head(vars))).value
    THEN [exc |-> None, returned |-> TRUE]
    ELSE ExplicitTrue(environ, Tail(vars))

\* _is_ci: the exception raised, or the value returned.
IsCi(os) ==
    LET no == ExplicitFalse(os.environ, CI_BOOLEAN_VARS)
        yes == ExplicitTrue(os.environ, CI_BOOLEAN_VARS)
    IN  IF no.exc # None THEN [exc |-> no.exc, value |-> FALSE]
        ELSE IF no.returned THEN [exc |-> None, value |-> FALSE]
        ELSE IF yes.exc # None THEN [exc |-> yes.exc, value |-> FALSE]
        ELSE IF yes.returned THEN [exc |-> None, value |-> TRUE]
        ELSE [exc |-> None,
              value |-> AnySet(os.environ, CI_PRESENCE_VARS) \/ InCiContainer(os)]

\* ----------------------------------------------------- console/render.py
\* _gather_tos, except CondaToSMissingError: continue.  Any other exception
\* ends the loop and the call.
GatherExcept_Raise(acc, exc) == [acc EXCEPT !.exc = exc]

GatherExcept(acc, exc) ==
    IF IsMissingError(exc) THEN acc ELSE [acc EXCEPT !.exc = exc]

\* One iteration of the loop of _gather_tos.  a holds the call's arguments
\* and surroundings; acc the three outputs so far, the cache, the exception
\* that ended the loop (None while it runs) and, per channel looked at, what
\* get_one_tos and its remote fetch gave (seen).
GatherOne(acc, channel, a) ==
    LET Seen(g) ==
            [acc EXCEPT !.cache[channel] = g.cache,
                        !.seen = @ \o <<[channel |-> channel, exc |-> g.exc,
                                         pair |-> g.pair, fetched |-> g.fetched]>>]
        Classified(g, acc1) ==
            IF g.exc # None THEN GatherExcept(acc1, g.exc)
            ELSE IF g.pair.remote # None \/ GetattrTosAccepted(g.pair.metadata) = "unset"
                 THEN [acc1 EXCEPT !.channel_pairs =
                                       @ \o <<[channel |-> channel, pair |-> g.pair]>>]
            ELSE IF GetattrTosAccepted(g.pair.metadata) = "true"
                 THEN [acc1 EXCEPT !.accepted =
                                       @ \o <<[channel |-> channel,
                                               metadata |-> g.pair.metadata]>>]
            ELSE [acc1 EXCEPT !.rejected = @ \o <<channel>>]
    IN  Only({Only({Classified(g, acc1) : acc1 \in {Seen(g)}}) :
              g \in {GetOneTos(a.files, acc.cache[channel], a.endpoint[channel], channel,
                               a.tos_root, a.cache_timeout, a.time, "cache" \in a.denied)}})

RECURSIVE GatherLoop(_, _, _)
GatherLoop(acc, channels, a) ==
    IF channels = <<>> \/ acc.exc # None THEN acc
    ELSE Only({GatherLoop(acc1, Tail(channels), a) :
               acc1 \in {GatherOne(acc, Head(channels), a)}})

\* _gather_tos
GatherTos(channels, a) ==
    Only({GatherLoop(acc, distinct, a) :
          acc \in {[accepted |-> <<>>, rejected |-> <<>>, channel_pairs |-> <<>>,
                    cache |-> a.cache, exc |-> None, seen |-> <<>>]},
          distinct \in {GetChannels(channels)}})

\* _is_tos_accepted: json_mode or always_yes or JUPYTER or not IS_INTERACTIVE
NonInteractive_NoYes(c) == c.json_mode \/ c.JUPYTER \/ ~c.IS_INTERACTIVE

NonInteractive(c) == c.json_mode \/ c.always_yes \/ c.JUPYTER \/ ~c.IS_INTERACTIVE

\* _is_tos_accepted: "ACCEPTED", "REJECTED" or "DEFERRED" (the function raises
\* CondaToSNonInteractiveError), and what it sends to the printer or console.
\* response is what the user finally answers if asked (kept with the prompt).
IsTosAccepted(c, channel, pair, response) ==
    IF c.auto_accept_tos
    THEN [state |-> "ACCEPTED",
          out |-> <<[event |-> "auto_accepted", channel |-> channel,
                     text |-> LatestText(pair)]>>]
    ELSE IF c.CI
    THEN [state |-> "ACCEPTED",
          out |-> <<[event |-> "ci_accepted", channel |-> channel,
                     text |-> LatestText(pair)]>>]
    ELSE IF NonInteractive(c)
    THEN [state |-> "DEFERRED", out |-> <<>>]
    ELSE [state |-> IF response = "accept" THEN "ACCEPTED" ELSE "REJECTED",
          out |-> <<[event |-> "prompt", channel |-> channel,
                     text |-> response]>>]

\* render_interactive between _gather_tos and the loop: the exception of
\* gather, or the early exit on standing rejections; TRUE for going on.
AfterGather_NoFailFast(g) ==
    IF g.exc # None THEN [raised |-> g.exc, go |-> FALSE]
    ELSE [raised |-> None, go |-> TRUE]

AfterGather_UnlessPending(g) ==
    IF g.exc # None THEN [raised |-> g.exc, go |-> FALSE]
    ELSE IF g.rejected # <<>> /\ g.channel_pairs = <<>>
    THEN [raised |-> BatchExc("CondaToSRejectedError", g.rejected), go |-> FALSE]
    ELSE [raised |-> None, go |-> TRUE]

AfterGather(g) ==
    IF g.exc # None THEN [raised |-> g.exc, go |-> FALSE]
    ELSE IF g.rejected # <<>>
    THEN [raised |-> BatchExc("CondaToSRejectedError", g.rejected), go |-> FALSE]
    ELSE [raised |-> None, go |-> TRUE]

\* The end of render_interactive, after the pending channels were processed.
Finish_IgnoreRejected(accepted, rejected, non_interactive) ==
    IF non_interactive # <<>>
    THEN BatchExc("CondaToSNonInteractiveError", non_interactive)
    ELSE None

Finish_IgnoreNonInteractive(accepted, rejected, non_interactive) ==
    IF rejected # <<>>
    THEN BatchExc("CondaToSRejectedError", rejected)
    ELSE None

Finish(accepted, rejected, non_interactive) ==
    IF non_interactive # <<>>
    THEN BatchExc("CondaToSNonInteractiveError", non_interactive)
    ELSE IF rejected # <<>>
    THEN BatchExc("CondaToSRejectedError", rejected)
    ELSE None

\* ------------------------------------------------------ console/prompt.py
\* Strings the prompt looks into are sequences of characters.
AcceptWord == <<"a", "c", "c", "e", "p", "t">>
RejectWord == <<"r", "e", "j", "e", "c", "t">>
ViewWord == <<"v", "i", "e", "w">>

\* The choices as _prompt_acceptance passes them: "(a)ccept", "(r)eject",
\* "(v)iew".
Braced(word) == <<"(", Head(word), ")">> \o Tail(word)
ChoicesWithView == <<Braced(AcceptWord), Braced(RejectWord), Braced(ViewWord)>>
ChoicesAfterView_StillView == ChoicesWithView
\* The choices of the recursive call after view.
ChoicesAfterView == <<Braced(AcceptWord), Braced(RejectWord)>>

\* FuzzyPrompt.strip_braces and str.lower, on the letters the model types.
\* str.strip: the value without its leading and trailing whitespace.
Strip(value) ==
    LET Leading(i) == \A j \in 1..i : value[j] = " "
        Trailing(i) == \A j \in i..Len(value) : value[j] = " "
    IN  IF Leading(Len(value)) THEN <<>>
        ELSE Only({SubSeq(value, first, final) :
                   first \in {i \in DOMAIN value : value[i] # " " /\ Leading(i - 1)},
                   final \in {i \in DOMAIN value : value[i] # " " /\ Trailing(i + 1)}})

StripBraces(value) ==
    LET NotBrace(ch) == ch \notin {"(", ")"}
    IN  Only({Strip(replaced) : replaced \in {SelectSeq(value, NotBrace)}})

Lower(value) ==
    [i \in DOMAIN value |->
        IF value[i] = "A" THEN "a" ELSE IF value[i] = "R" THEN "r"
        ELSE IF value[i] = "V" THEN "v" ELSE value[i]]

StartsWith(word, prefix) ==
    Len(prefix) <= Len(word) /\ SubSeq(word, 1, Len(prefix)) = prefix

\* FuzzyPrompt.check_choice: the first choice, braces stripped, that starts
\* with the stripped, lowered value; <<>> for no match (None), else <<choice>>.
CheckChoice(choices, value) ==
    LET Matching(choice, stripped) ==
            Only({IF StartsWith(Lower(bare), stripped) THEN <<bare>> ELSE <<>> :
                  bare \in {StripBraces(choice)}})
        First(matches) == IF matches = <<>> THEN <<>> ELSE <<matches[1]>>
    IN  Only({First(Only({FlatMap(LAMBDA choice : Matching(choice, stripped), choices)})) :
              stripped \in {Only({Lower(bare) : bare \in {StripBraces(value)}})}})

\* What the user may type.
Inputs ==
    {<<>>, <<"a">>, AcceptWord, <<"A">>, <<"(", "a", ")">>, <<"r">>, <<"r", "e", "j">>,
     <<"v">>, ViewWord, <<"x">>, <<"a", " ", "c">>, <<" ">>, <<" ", "r", " ">>}

\* ------------------------------------------------------------------ state
\* A behaviour is one run of a conda process: one command, started on the
\* file system and the endpoints as earlier runs and the publishers left them.
VARIABLES
    files,            \* the local acceptance store: the record files of all roots
    cache,            \* per channel, its cache file
    endpoint,         \* per channel, what its terms.json endpoint answers now
    now,              \* the wall clock
    envs,             \* endpoint changes so far
    pc,               \* "idle" before the command, "process" in the loop of
                      \* _process_channel_pairs, "done" after the command
    ctx,              \* the arguments and execution context of the workflow
    gathered,         \* what _gather_tos returned to it
    accepted,         \* its accepted map, in insertion order
    rejected,         \* its rejected list
    non_interactive,  \* its non_interactive list
    channel_pairs,    \* the pending pairs not processed yet
    decided,          \* per pending channel processed, the state it resolved to
    console,          \* what was sent to the printer and the prompt
    raised,           \* the exception that ended the workflow, None otherwise
    files0,           \* the local store when the command started
    last              \* the latest call of get_one_tos, accept_tos or reject_tos

workflow == <<pc, ctx, gathered, accepted, rejected, non_interactive, channel_pairs,
              decided, console, raised>>
vars == <<files, cache, endpoint, now, envs, pc, ctx, gathered, accepted,
          rejected, non_interactive, channel_pairs, decided, console, raised, files0,
          last>>

\* ------------------------------------------------------------ initial states
\* A record file as write_metadata leaves it: named by its version, carrying
\* the channel's base URL.
RecordFile(tos_root, channel, version, text, tos_accepted, time) ==
    [path |-> GetMetadataPath(tos_root, channel, version),
     metadata |-> [kind |-> "local", version |-> version, text |-> text,
                   base_url |-> channel, tos_accepted |-> tos_accepted,
                   acceptance_timestamp |-> time]]

\* The stores of one channel with at most one record, of text "t1".
SingleStores(channel, roots, versions) ==
    {{}} \cup {{RecordFile(r, channel, v, "t1", b, 0)} :
                  r \in roots, v \in versions, b \in BOOLEAN}

\* The execution contexts: the explicit opt-in, the detected CI, and the four
\* reasons for which no prompt can be shown.
Context(auto, ci, json, yes, jupyter, tty) ==
    [auto_accept_tos |-> auto, CI |-> ci, json_mode |-> json, always_yes |-> yes,
     JUPYTER |-> jupyter, IS_INTERACTIVE |-> tty]

AllContexts ==
    {Context(a, c, j, y, n, t) : a \in BOOLEAN, c \in BOOLEAN, j \in BOOLEAN,
                                 y \in BOOLEAN, n \in BOOLEAN, t \in BOOLEAN}

\* One context per branch of _is_tos_accepted: the prompt, the opt-in, CI,
\* and conda run with --yes.
Contexts ==
    {Context(FALSE, FALSE, FALSE, FALSE, FALSE, TRUE),
     Context(TRUE, FALSE, FALSE, FALSE, FALSE, TRUE),
     Context(FALSE, TRUE, FALSE, FALSE, FALSE, TRUE),
     Context(FALSE, FALSE, FALSE, TRUE, FALSE, TRUE)}

\* The inputs of the commands.
ChannelInputs == {<<"c1", "c2">>, <<"c2", "c1", "c2">>}
Denials == {{}, {"cache"}, {"store"}}
Responses == {"accept", "reject"}

InitWith(stores1, stores2, endpoints1, endpoints2, caches1, times) ==
    /\ \E f1 \in stores1, f2 \in stores2 : files = f1 \cup f2
    /\ \E k \in caches1 : cache = [c \in Channels |-> IF c = "c1" THEN k ELSE NoFile]
    /\ \E e1 \in endpoints1, e2 \in endpoints2 :
          endpoint = [c \in Channels |-> IF c = "c1" THEN e1 ELSE e2]
    /\ now \in times
    /\ envs = 0
    /\ pc = "idle"
    /\ ctx = None
    /\ gathered = None
    /\ accepted = <<>>
    /\ rejected = <<>>
    /\ non_interactive = <<>>
    /\ channel_pairs = <<>>
    /\ decided = <<>>
    /\ console = <<>>
    /\ raised = None
    /\ files0 = files
    /\ last = None

\* -------------------------------------------------------------- surroundings
\* Time passes while the workflow waits.
Tick ==
    /\ pc = "process"
    /\ now < MaxTime
    /\ now' = now + 1
    /\ UNCHANGED <<files, cache, endpoint, envs, workflow, files0, last>>

\* While the workflow waits, the publisher of a channel takes its terms down
\* or publishes a new document.
Republished == {NoToS, [kind |-> "remote", version |-> MaxVersion, text |-> "t2",
                        extra_tos_accepted |-> "unset"]}

Publish(channel, value) ==
    /\ pc = "process"
    /\ envs < MaxEnv
    /\ value # endpoint[channel]
    /\ endpoint' = [endpoint EXCEPT ![channel] = value]
    /\ envs' = envs + 1
    /\ UNCHANGED <<files, cache, now, workflow, files0, last>>

\* ------------------------------------------------------------------ commands
\* get_one_tos for one channel (conda tos view).
Reconcile(channel, tos_root, cache_timeout, denied) ==
    /\ pc = "idle"
    /\ \E g \in {GetOneTos(files, cache[channel], endpoint[channel], channel, tos_root,
                             cache_timeout, now, "cache" \in denied)} :
           /\ cache' = [cache EXCEPT ![channel] = g.cache]
           /\ last' = [op |-> "get_one_tos", channel |-> channel, tos_root |-> tos_root,
                       exc |-> g.exc, pair |-> g.pair, fetched |-> g.fetched,
                       reconciled |-> g.pair]
    /\ pc' = "done"
    /\ UNCHANGED <<files, endpoint, now, envs, ctx, gathered, accepted, rejected,
                   non_interactive, channel_pairs, decided, console, raised, files0>>

\* The observation a call of accept_tos or reject_tos leaves.
Decided(op, channel, tos_root, d) ==
    [op |-> op, channel |-> channel, tos_root |-> tos_root, exc |-> d.exc,
     pair |-> d.pair, fetched |-> None, reconciled |-> d.reconciled]

\* accept_tos for one channel (conda tos accept).
Accept(channel, tos_root, cache_timeout, denied) ==
    /\ pc = "idle"
    /\ \E d \in {AcceptTos(files, cache[channel], endpoint[channel], channel, tos_root,
                             cache_timeout, now, denied)} :
           /\ files' = d.files
           /\ cache' = [cache EXCEPT ![channel] = d.cache]
           /\ last' = Decided("accept_tos", channel, tos_root, d)
    /\ pc' = "done"
    /\ UNCHANGED <<endpoint, now, envs, ctx, gathered, accepted, rejected,
                   non_interactive, channel_pairs, decided, console, raised, files0>>

\* reject_tos for one channel (conda tos reject).
Reject(channel, tos_root, cache_timeout, denied) ==
    /\ pc = "idle"
    /\ \E d \in {RejectTos(files, cache[channel], endpoint[channel], channel, tos_root,
                             cache_timeout, now, denied)} :
           /\ files' = d.files
           /\ cache' = [cache EXCEPT ![channel] = d.cache]
           /\ last' = Decided("reject_tos", channel, tos_root, d)
    /\ pc' = "done"
    /\ UNCHANGED <<endpoint, now, envs, ctx, gathered, accepted, rejected,
                   non_interactive, channel_pairs, decided, console, raised, files0>>

\* render_interactive up to the loop over the pending channels: gather, fail
\* fast on a standing rejection, and finish at once when nothing is pending.
RenderInteractive(channels, tos_root, cache_timeout, denied, c) ==
    /\ pc = "idle"
    /\ \E g \in {GatherTos(channels,
                             [files |-> files, cache |-> cache, endpoint |-> endpoint,
                              tos_root |-> tos_root, cache_timeout |-> cache_timeout,
                              time |-> now, denied |-> denied])} :
           /\ cache' = g.cache
           /\ gathered' = g
           /\ ctx' = [channels |-> channels, tos_root |-> tos_root,
                      cache_timeout |-> cache_timeout, denied |-> denied, env |-> c]
           /\ accepted' = g.accepted
           /\ rejected' = g.rejected
           /\ IF ~AfterGather(g).go
              THEN /\ raised' = AfterGather(g).raised
                   /\ channel_pairs' = <<>>
                   /\ pc' = "done"
              ELSE IF g.channel_pairs = <<>>
              THEN /\ raised' = Finish(g.accepted, g.rejected, <<>>)
                   /\ channel_pairs' = <<>>
                   /\ pc' = "done"
              ELSE /\ raised' = None
                   /\ channel_pairs' = g.channel_pairs
                   /\ pc' = "process"
    /\ UNCHANGED <<files, endpoint, now, envs, non_interactive, decided, console,
                   files0, last>>

\* One iteration of the loop of _process_channel_pairs, and the end of
\* render_interactive after the last one.
ProcessChannelPair(response) ==
    /\ pc = "process"
    /\ \E channel \in {Head(channel_pairs).channel}, pair \in {Head(channel_pairs).pair},
          rest \in {Tail(channel_pairs)} :
       \E t \in {IsTosAccepted(ctx.env, channel, pair, response)} :
       \E d \in {IF t.state = "ACCEPTED"
                 THEN AcceptTos(files, cache[channel], endpoint[channel], channel,
                                ctx.tos_root, ctx.cache_timeout, now, ctx.denied)
                 ELSE IF t.state = "REJECTED"
                 THEN RejectTos(files, cache[channel], endpoint[channel], channel,
                                ctx.tos_root, ctx.cache_timeout, now, ctx.denied)
                 ELSE None} :
           /\ console' = console \o t.out
           /\ decided' = decided \o <<[channel |-> channel, state |-> t.state,
                                       pair |-> pair]>>
           /\ IF t.state = "DEFERRED"
              THEN /\ non_interactive' = non_interactive \o <<channel>>
                   /\ raised' = IF rest = <<>>
                                THEN Finish(accepted, rejected, non_interactive')
                                ELSE None
                   /\ channel_pairs' = rest
                   /\ pc' = IF rest = <<>> THEN "done" ELSE "process"
                   /\ UNCHANGED <<files, cache, accepted, rejected, last>>
              ELSE /\ files' = d.files
                   /\ cache' = [cache EXCEPT ![channel] = d.cache]
                   /\ last' = Decided(IF t.state = "ACCEPTED" THEN "accept_tos"
                                      ELSE "reject_tos", channel, ctx.tos_root, d)
                   /\ IF d.exc # None
                      THEN /\ raised' = d.exc
                           /\ channel_pairs' = rest
                           /\ pc' = "done"
                           /\ UNCHANGED <<accepted, rejected, non_interactive>>
                      ELSE /\ accepted' = IF t.state = "ACCEPTED"
                                          THEN accepted \o <<[channel |-> channel,
                                                   metadata |-> d.pair.metadata]>>
                                          ELSE accepted
                           /\ rejected' = IF t.state = "REJECTED"
                                          THEN rejected \o <<channel>>
                                          ELSE rejected
                           /\ UNCHANGED non_interactive
                           /\ raised' = IF rest = <<>>
                                        THEN Finish(accepted', rejected', non_interactive)
                                        ELSE None
                           /\ channel_pairs' = rest
                           /\ pc' = IF rest = <<>> THEN "done" ELSE "process"
    /\ UNCHANGED <<endpoint, now, envs, ctx, gathered, files0>>

\* ------------------------------------------------------------ specifications
\* The batch workflow on two channels: c1 with any single-record store and any
\* endpoint, c2 with a record of version 1 under the user root or none and an
\* endpoint without ToS or with a plain document of version 1.
Init ==
    InitWith(SingleStores("c1", {"user"}, Versions), SingleStores("c2", {"user"}, {1}),
             EndpointValues,
             {NoToS, [kind |-> "remote", version |-> 1, text |-> "t2",
                      extra_tos_accepted |-> "unset"]},
             {NoFile}, {0})

Next ==
    \/ Tick
    \/ \E channel \in Channels, value \in Republished : Publish(channel, value)
    \/ \E channels \in ChannelInputs, tos_root \in TosRoots, cache_timeout \in Timeouts,
          denied \in Denials, c \in Contexts :
          RenderInteractive(channels, tos_root, cache_timeout, denied, c)
    \/ \E response \in Responses : ProcessChannelPair(response)

Spec == Init /\ [][Next]_vars

\* The single-channel commands on c1, with up to two records of c1 in the
\* store, any endpoint, and a cache file that is absent, the empty sentinel or
\* a document, written at time 0 and looked at at time 0 or later.
PairStores(channel) ==
    LET singles == UNION (SingleStores(channel, TosRoots, Versions) \ {{}})
    IN  {{}} \cup {{f} : f \in singles}
             \cup UNION {{{f, g} : g \in {h \in singles : h.path # f.path}} :
                            f \in singles}

InitApi ==
    InitWith(PairStores("c1"), {{}}, EndpointValues, {NoToS},
             {NoFile, CacheFile(0, EmptyContent)}
                 \cup {CacheFile(0, m) : m \in {p \in Payloads : p.extra_tos_accepted = "unset"}},
             Times)

NextApi ==
    \E tos_root \in TosRoots, cache_timeout \in Timeouts, denied \in Denials :
        \/ Reconcile("c1", tos_root, cache_timeout, denied)
        \/ Accept("c1", tos_root, cache_timeout, denied)
        \/ Reject("c1", tos_root, cache_timeout, denied)

SpecApi == InitApi /\ [][NextApi]_vars

\* The workflow in every execution context, on channels without local record.
InitContexts ==
    InitWith({{}}, {{}}, {m \in Payloads : m.version = 1 /\ m.text = "t1"},
             {NoToS} \cup {m \in Payloads : m.version = 1 /\ m.text = "t2"},
             {NoFile}, {0})

NextContexts ==
    \/ \E channels \in ChannelInputs, c \in AllContexts :
          RenderInteractive(channels, "user", TimeoutOne, {}, c)
    \/ \E response \in Responses : ProcessChannelPair(response)

SpecContexts == InitContexts /\ [][NextContexts]_vars

\* ------------------------------------------------------------ repeated calls
\* A program that calls the API and then calls it again: pc is "called"
\* between the two calls.
AfterCall == IF pc = "idle" THEN "called" ELSE "done"

\* Time passes between two calls.
Elapse ==
    /\ pc = "called"
    /\ now < MaxTime
    /\ now' = now + 1
    /\ UNCHANGED <<files, cache, endpoint, envs, workflow, files0, last>>

\* get_remote_metadata for one channel, online or offline.  The observation
\* keeps the cache file before and after, and the observation of the call
\* before this one.
Fetch(channel, cache_timeout, offline, denied) ==
    /\ pc \in {"idle", "called"}
    /\ \E r \in {GetRemoteMetadataOffline(offline, cache[channel], endpoint[channel],
                                          cache_timeout, now, "cache" \in denied)} :
           /\ cache' = [cache EXCEPT ![channel] = r.cache]
           /\ last' = [op |-> "get_remote_metadata", channel |-> channel,
                       cache_timeout |-> cache_timeout, offline |-> offline,
                       denied |-> denied, time |-> now, before |-> cache[channel],
                       after |-> r.cache, exc |-> r.exc, metadata |-> r.metadata,
                       network |-> r.network,
                       prev |-> IF last = None THEN None ELSE [last EXCEPT !.prev = None]]
    /\ pc' = AfterCall
    /\ UNCHANGED <<files, endpoint, now, envs, ctx, gathered, accepted, rejected,
                   non_interactive, channel_pairs, decided, console, raised, files0>>

\* The fetches of c1, from a cache file that is absent, the empty sentinel
\* or a document, written at time 0, against any endpoint.
CacheTimeouts == Timeouts \cup {None}

InitCache ==
    InitWith({{}}, {{}}, EndpointValues, {NoToS},
             {NoFile, CacheFile(0, EmptyContent)}
                 \cup {CacheFile(0, m) : m \in {p \in Payloads : p.extra_tos_accepted = "unset"
                                                               /\ p.text = "t1"}},
             Times)

NextCache ==
    \/ Elapse
    \/ \E cache_timeout \in CacheTimeouts, offline \in BOOLEAN, denied \in {{}, {"cache"}} :
          Fetch("c1", cache_timeout, offline, denied)

SpecCache == InitCache /\ [][NextCache]_vars

\* write_metadata for one channel under one root.  The observation keeps the
\* store before the call and the observation of the call before this one.
Write(tos_root, channel, metadata, tos_accepted) ==
    /\ pc \in {"idle", "called"}
    /\ \E w \in {WriteMetadata(files, tos_root, channel, metadata, tos_accepted, now)} :
           /\ files' = w.files
           /\ last' = [op |-> "write_metadata", tos_root |-> tos_root, channel |-> channel,
                       metadata |-> metadata, tos_accepted |-> tos_accepted,
                       time |-> now, before |-> files, pair |-> w.pair,
                       prev |-> IF last = None THEN None ELSE [last EXCEPT !.prev = None]]
    /\ pc' = AfterCall
    /\ UNCHANGED <<cache, endpoint, now, envs, ctx, gathered, accepted, rejected,
                   non_interactive, channel_pairs, decided, console, raised, files0>>

\* get_local_metadata for one channel; pair is None when it raises
\* CondaToSMissingError.
Read(channel, extend_search_path) ==
    /\ pc \in {"idle", "called"}
    /\ \E local_pair \in {GetLocalMetadata(files, channel, extend_search_path)} :
           last' = [op |-> "get_local_metadata", channel |-> channel,
                    extend_search_path |-> extend_search_path, pair |-> local_pair,
                    prev |-> IF last = None THEN None ELSE [last EXCEPT !.prev = None]]
    /\ pc' = AfterCall
    /\ UNCHANGED <<files, cache, endpoint, now, envs, ctx, gathered, accepted, rejected,
                   non_interactive, channel_pairs, decided, console, raised, files0>>

\* The roots of the local store: the built-in ones and one that only the
\* caller names.
LocalRoots == TosRoots \cup {"custom"}

\* A file that does not hold a valid record.
CorruptFile(tos_root, channel, version) ==
    [path |-> GetMetadataPath(tos_root, channel, version), metadata |-> Garbage]

\* The stores with up to two files of c1, records or corrupt files, in any
\* roots, and possibly a record of c2.
LocalStores ==
    LET candidates ==
            {RecordFile(r, "c1", v, "t1", b, 0) :
                 r \in LocalRoots, v \in Versions, b \in BOOLEAN}
            \cup {CorruptFile(r, "c1", v) : r \in LocalRoots, v \in Versions}
        upto2 == {{}} \cup {{f} : f \in candidates}
                      \cup UNION {{{f, g} : g \in {h \in candidates : h.path # f.path}} :
                                     f \in candidates}
    IN  {fs \cup other :
            fs \in upto2, other \in {{}, {RecordFile("user", "c2", 1, "t1", TRUE, 0)}}}

InitLocal == InitWith(LocalStores, {{}}, {NoToS}, {NoToS}, {NoFile}, {0})

NextLocal ==
    \/ Elapse
    \/ \E tos_root \in LocalRoots, tos_accepted \in BOOLEAN,
          metadata \in {m \in Payloads : m.text = "t2"} :
          Write(tos_root, "c1", metadata, tos_accepted)
    \/ \E extend_search_path \in {<<>>, <<"custom">>, <<"user">>} :
          Read("c1", extend_search_path)

SpecLocal == InitLocal /\ [][NextLocal]_vars

\* _gather_tos called by itself, and called again right away with the same
\* arguments.  The observation keeps what the call before returned.
Gather(channels, tos_root, cache_timeout) ==
    /\ pc \in {"idle", "called"}
    /\ ctx # None => /\ ctx.channels = channels
                     /\ ctx.tos_root = tos_root
                     /\ ctx.cache_timeout = cache_timeout
    /\ \E g \in {GatherTos(channels,
                             [files |-> files, cache |-> cache, endpoint |-> endpoint,
                              tos_root |-> tos_root, cache_timeout |-> cache_timeout,
                              time |-> now, denied |-> {}])} :
           /\ cache' = g.cache
           /\ gathered' = g
           /\ last' = [op |-> "_gather_tos", before |-> cache, prev |-> gathered]
    /\ ctx' = [channels |-> channels, tos_root |-> tos_root,
               cache_timeout |-> cache_timeout, denied |-> {}, env |-> None]
    /\ pc' = AfterCall
    /\ UNCHANGED <<files, endpoint, now, envs, accepted, rejected, non_interactive,
                   channel_pairs, decided, console, raised, files0>>

\* Gather on c1 and c2: c1 with at most one record, any endpoint and a cache
\* file that is absent, the empty sentinel or a document, written at time 0
\* and looked at at time 0 or later; c2 without record.
InitGather ==
    InitWith(SingleStores("c1", TosRoots, Versions), {{}}, EndpointValues,
             {NoToS, [kind |-> "remote", version |-> 1, text |-> "t2",
                      extra_tos_accepted |-> "unset"]},
             {NoFile, CacheFile(0, EmptyContent)}
                 \cup {CacheFile(0, m) : m \in {p \in Payloads : p.extra_tos_accepted = "unset"
                                                               /\ p.text = "t1"}},
             Times)

NextGather ==
    \E channels \in ChannelInputs, tos_root \in TosRoots, cache_timeout \in Timeouts :
        Gather(channels, tos_root, cache_timeout)

SpecGather == InitGather /\ [][NextGather]_vars

\* Gather on inputs that name a channel more than once, by repetition or by
\* the multichannel that stands for c1 and c2.
MultiInputs ==
    {<<"defaults">>, <<"c2", "defaults", "c1">>, <<"c1", "c1">>, <<"c2", "c1", "c2">>}

NextChannels ==
    \E channels \in MultiInputs, tos_root \in TosRoots, cache_timeout \in Timeouts :
        Gather(channels, tos_root, cache_timeout)

SpecChannels == InitGather /\ [][NextChannels]_vars

\* ------------------------------------------------------- the endpoint fetch
\* get_endpoint, statement by statement.  ctx is conda's global context
\* (add_anaconda_token, offline); pc is "try" once the setting is saved,
\* "request" while session.get runs, "finally" when the try block is left.
\* The observation keeps the setting before the call, during the request
\* and when the call is over.
MultiChannel == "defaults"

RestoreTokenSetting_OnReturnOnly(saved_token_setting, current, exc) ==
    IF exc = None THEN saved_token_setting ELSE current

\* finally: context.add_anaconda_token = saved_token_setting
RestoreTokenSetting(saved_token_setting, current, exc) == saved_token_setting

\* What session.get and raise_for_status give for an endpoint value: the
\* exception leaving the try block, or the response.
RequestOutcome(offline, value) ==
    IF offline THEN [exc |-> Exc("RuntimeError", "session.get"), response |-> None]
    ELSE IF value = NoToS
    THEN [exc |-> Exc("CondaToSMissingError", "get_endpoint"), response |-> None]
    ELSE [exc |-> None, response |-> value]

\* Lines 37-47: the channel is resolved and the setting saved; a channel
\* without base URL raises ValueError before anything is touched.
EndpointCall(channel) ==
    /\ pc \in {"idle", "called"}
    /\ last' = [op |-> "get_endpoint", channel |-> channel, first |-> pc = "idle",
                before |-> ctx.add_anaconda_token,
                saved_token_setting |-> ctx.add_anaconda_token,
                during |-> <<>>, after |-> ctx.add_anaconda_token,
                exc |-> None, response |-> None]
    /\ IF channel = MultiChannel
       THEN /\ raised' = Exc("ValueError", "get_endpoint")
            /\ pc' = AfterCall
       ELSE /\ raised' = None
            /\ pc' = "try"
    /\ UNCHANGED <<files, cache, endpoint, now, envs, ctx, gathered, accepted, rejected,
                   non_interactive, channel_pairs, decided, console, files0>>

\* Line 53: context.add_anaconda_token = False
EndpointTry ==
    /\ pc = "try"
    /\ ctx' = [ctx EXCEPT !.add_anaconda_token = FALSE]
    /\ pc' = "request"
    /\ UNCHANGED <<files, cache, endpoint, now, envs, gathered, accepted, rejected,
                   non_interactive, channel_pairs, decided, console, raised, files0, last>>

\* Lines 54-65: the request and raise_for_status; the observation keeps the
\* setting the request ran under.
EndpointRequest ==
    /\ pc = "request"
    /\ \E o \in {RequestOutcome(ctx.offline, endpoint[last.channel])} :
           last' = [last EXCEPT !.during = <<ctx.add_anaconda_token>>,
                                !.exc = o.exc, !.response = o.response]
    /\ pc' = "finally"
    /\ UNCHANGED <<files, cache, endpoint, now, envs, ctx, gathered, accepted, rejected,
                   non_interactive, channel_pairs, decided, console, raised, files0>>

\* Lines 66-68: the finally clause, then the return or the exception.
EndpointFinally ==
    /\ pc = "finally"
    /\ \E restored \in {RestoreTokenSetting(last.saved_token_setting,
                                              ctx.add_anaconda_token, last.exc)} :
           /\ ctx' = [ctx EXCEPT !.add_anaconda_token = restored]
           /\ last' = [last EXCEPT !.after = restored]
    /\ raised' = last.exc
    /\ pc' = IF last.first THEN "called" ELSE "done"
    /\ UNCHANGED <<files, cache, endpoint, now, envs, gathered, accepted, rejected,
                   non_interactive, channel_pairs, decided, console, files0>>

\* Between two calls the user's configuration may change the setting.
SetAddAnacondaToken(value) ==
    /\ pc = "called"
    /\ ctx.add_anaconda_token # value
    /\ envs < MaxEnv
    /\ envs' = envs + 1
    /\ ctx' = [ctx EXCEPT !.add_anaconda_token = value]
    /\ UNCHANGED <<files, cache, endpoint, now, pc, gathered, accepted, rejected,
                   non_interactive, channel_pairs, decided, console, raised, files0, last>>

InitEndpoint ==
    /\ files = {}
    /\ cache = [c \in Channels |-> NoFile]
    /\ \E e1 \in EndpointValues, e2 \in {NoToS, Garbage} :
          endpoint = [c \in Channels |-> IF c = "c1" THEN e1 ELSE e2]
    /\ now = 0
    /\ envs = 0
    /\ pc = "idle"
    /\ \E token \in BOOLEAN, offline \in BOOLEAN :
          ctx = [add_anaconda_token |-> token, offline |-> offline]
    /\ gathered = None
    /\ accepted = <<>>
    /\ rejected = <<>>
    /\ non_interactive = <<>>
    /\ channel_pairs = <<>>
    /\ decided = <<>>
    /\ console = <<>>
    /\ raised = None
    /\ files0 = files
    /\ last = None

NextEndpoint ==
    \/ \E channel \in Channels \cup {MultiChannel} : EndpointCall(channel)
    \/ EndpointTry
    \/ EndpointRequest
    \/ EndpointFinally
    \/ \E value \in BOOLEAN : SetAddAnacondaToken(value)

SpecEndpoint == InitEndpoint /\ [][NextEndpoint]_vars

\* ----------------------------------------------- calls under refused access
\* The three calls, each ending a two-call program as above.
FetchRefused(channel, cache_timeout, denied) ==
    /\ pc \in {"idle", "called"}
    /\ \E r \in {GetRemoteMetadataRefused(cache[channel], endpoint[channel], channel,
                                          cache_timeout, now, denied)} :
           /\ cache' = [cache EXCEPT ![channel] = r.cache]
           /\ raised' = r.exc
           /\ last' = [op |-> "get_remote_metadata", channel |-> channel,
                       denied |-> denied, used_cache |-> ~r.network]
    /\ files' = files
    /\ pc' = AfterCall
    /\ UNCHANGED <<endpoint, now, envs, ctx, gathered, accepted, rejected,
                   non_interactive, channel_pairs, decided, console, files0>>

WriteRefused(tos_root, channel, metadata, tos_accepted, denied) ==
    /\ pc \in {"idle", "called"}
    /\ \E w \in {WriteMetadataRefused(files, tos_root, channel, metadata, tos_accepted,
                                      now, denied)} :
           /\ files' = w.files
           /\ raised' = w.exc
           /\ last' = [op |-> "write_metadata", channel |-> channel, denied |-> denied,
                       used_cache |-> FALSE]
    /\ cache' = cache
    /\ pc' = AfterCall
    /\ UNCHANGED <<endpoint, now, envs, ctx, gathered, accepted, rejected,
                   non_interactive, channel_pairs, decided, console, files0>>

ReadRefused(channel, extend_search_path, denied) ==
    /\ pc \in {"idle", "called"}
    /\ \E l \in {GetLocalMetadataRefused(files, channel, extend_search_path, denied)} :
           /\ raised' = l.exc
           /\ last' = [op |-> "get_local_metadata", channel |-> channel,
                       denied |-> denied, used_cache |-> FALSE]
    /\ pc' = AfterCall
    /\ UNCHANGED <<files, cache, endpoint, now, envs, ctx, gathered, accepted, rejected,
                   non_interactive, channel_pairs, decided, console, files0>>

\* c1 with at most one record, an endpoint without ToS or with a document,
\* and a cache file that is absent, the sentinel or a document.
InitRefused ==
    InitWith(SingleStores("c1", TosRoots, Versions), {{}},
             {NoToS} \cup {m \in Payloads : m.extra_tos_accepted = "unset" /\ m.text = "t2"},
             {NoToS},
             {NoFile, CacheFile(0, EmptyContent)}
                 \cup {CacheFile(0, m) : m \in {p \in Payloads : p.extra_tos_accepted = "unset"
                                                               /\ p.text = "t1"}},
             {0})

NextRefused ==
    \E denied \in {{}} \cup {{d} : d \in Refusals} :
        \/ \E cache_timeout \in {TimeoutIgnore, TimeoutInf} :
              FetchRefused("c1", cache_timeout, denied)
        \/ \E tos_root \in TosRoots, tos_accepted \in BOOLEAN,
              metadata \in {m \in Payloads : m.text = "t2" /\ m.version = MaxVersion} :
              WriteRefused(tos_root, "c1", metadata, tos_accepted, denied)
        \/ ReadRefused("c1", <<>>, denied)

SpecRefused == InitRefused /\ [][NextRefused]_vars

\* ------------------------------------------------------- damaged record files
\* get_local_metadata on a store that may hold damaged files.
ReadOrRaise(channel, extend_search_path) ==
    /\ pc \in {"idle", "called"}
    /\ \E l \in {GetLocalMetadataOrRaise(files, channel, extend_search_path)} :
           /\ raised' = l.exc
           /\ last' = [op |-> "get_local_metadata", channel |-> channel,
                       extend_search_path |-> extend_search_path, pair |-> l.pair,
                       exc |-> l.exc,
                       prev |-> IF last = None THEN None ELSE [last EXCEPT !.prev = None]]
    /\ pc' = AfterCall
    /\ UNCHANGED <<files, cache, endpoint, now, envs, ctx, gathered, accepted, rejected,
                   non_interactive, channel_pairs, decided, console, files0>>

\* A record file cut short or overwritten with bytes that are not text.
UndecodableFile(tos_root, channel, version) ==
    [path |-> GetMetadataPath(tos_root, channel, version), metadata |-> Undecodable]

\* The stores with up to two files of c1 in the built-in roots: records,
\* files that do not validate, files that are not text.
DamagedStores ==
    LET candidates ==
            {RecordFile(r, "c1", v, "t1", TRUE, 0) : r \in TosRoots, v \in Versions}
            \cup {CorruptFile(r, "c1", v) : r \in TosRoots, v \in Versions}
            \cup {UndecodableFile(r, "c1", v) : r \in TosRoots, v \in Versions}
    IN  {{}} \cup {{f} : f \in candidates}
             \cup UNION {{{f, g} : g \in {h \in candidates : h.path # f.path}} :
                            f \in candidates}

InitDamaged == InitWith(DamagedStores, {{}}, {NoToS}, {NoToS}, {NoFile}, {0})

NextDamaged ==
    \/ \E tos_root \in TosRoots, tos_accepted \in BOOLEAN,
          metadata \in {m \in Payloads : m.text = "t2"} :
          Write(tos_root, "c1", metadata, tos_accepted)
    \/ \E extend_search_path \in {<<>>, <<"user">>} : ReadOrRaise("c1", extend_search_path)

SpecDamaged == InitDamaged /\ [][NextDamaged]_vars

\* -------------------------------------------------------- listing the store
\* get_local_metadatas, consumed to its end.
ReadAll(extend_search_path) ==
    /\ pc \in {"idle", "called"}
    /\ \E listed \in {GetLocalMetadatas(files, extend_search_path)} :
           last' = [op |-> "get_local_metadatas", extend_search_path |-> extend_search_path,
                    listed |-> listed,
                    prev |-> IF last = None THEN None ELSE [last EXCEPT !.prev = None]]
    /\ pc' = AfterCall
    /\ UNCHANGED <<files, cache, endpoint, now, envs, ctx, gathered, accepted, rejected,
                   non_interactive, channel_pairs, decided, console, raised, files0>>

\* Reads of one channel and of the whole store, after a write to either
\* channel, on the stores above.
InitList == InitWith(LocalStores, {{}}, {NoToS}, {NoToS}, {NoFile}, {0})

NextList ==
    \/ \E tos_root \in TosRoots, channel \in Channels,
          metadata \in {m \in Payloads : m.text = "t2" /\ m.version = MaxVersion} :
          Write(tos_root, channel, metadata, TRUE)
    \/ \E extend_search_path \in {<<>>, <<"custom">>} : Read("c1", extend_search_path)
    \/ \E extend_search_path \in {<<>>, <<"custom">>} : ReadAll(extend_search_path)

SpecList == InitList /\ [][NextList]_vars

\* ------------------------------------------------------ the interactive prompt
\* The user gives at most MaxRetries answers that are no choice.
MaxRetries == 2

\* _prompt_acceptance is entered for a pending pair: the question is asked
\* with the three choices.  ctx holds the call's arguments.
PromptAcceptance(channel, pair) ==
    /\ pc = "idle"
    /\ ctx' = [channel |-> channel, pair |-> pair, choices |-> ChoicesWithView]
    /\ console' = <<[event |-> "ask", outdated |-> pair.remote # None,
                     choices |-> ChoicesWithView]>>
    /\ pc' = "ask"
    /\ UNCHANGED <<files, cache, endpoint, now, envs, gathered, accepted, rejected,
                   non_interactive, channel_pairs, decided, raised, files0, last>>

\* The user types a line.  FuzzyPrompt asks again after a line that is no
\* choice; accept and reject end the call; view prints the latest text and
\* calls _prompt_acceptance again with the choices after view.
Answer(value) ==
    /\ pc = "ask"
    /\ \E choice \in {CheckChoice(ctx.choices, value)} :
          IF choice = <<>>
          THEN /\ Cardinality({i \in DOMAIN console : console[i].event = "invalid"})
                      < MaxRetries
               /\ console' = console \o <<[event |-> "invalid", value |-> value]>>
               /\ UNCHANGED <<pc, ctx, last>>
          ELSE IF choice[1] = AcceptWord \/ choice[1] = RejectWord
          THEN /\ last' = [op |-> "_prompt_acceptance", channel |-> ctx.channel,
                           value |-> value, response |-> choice[1],
                           result |-> choice[1] = AcceptWord]
               /\ pc' = "done"
               /\ UNCHANGED <<ctx, console>>
          ELSE /\ console' = console
                      \o <<[event |-> "view", value |-> value,
                            text |-> LatestText(ctx.pair)],
                           [event |-> "ask", outdated |-> ctx.pair.remote # None,
                            choices |-> ChoicesAfterView]>>
               /\ ctx' = [ctx EXCEPT !.choices = ChoicesAfterView]
               /\ UNCHANGED <<pc, last>>
    /\ UNCHANGED <<files, cache, endpoint, now, envs, gathered, accepted, rejected,
                   non_interactive, channel_pairs, decided, raised, files0>>

\* The pairs _gather_tos leaves pending for c1: the remote metadata alone, or
\* a local record with newer remote metadata.
PendingPairs ==
    {RemotePair(m) : m \in {p \in Payloads : p.extra_tos_accepted = "unset"}}
    \cup UNION {{LocalPair(f.metadata, f.path, m) :
                     m \in {p \in Payloads : p.extra_tos_accepted = "unset"
                                             /\ p.text = "t2"
                                             /\ p.version > f.metadata.version}} :
                 f \in UNION SingleStores("c1", {"user"}, Versions)}

InitPrompt == InitWith({{}}, {{}}, {NoToS}, {NoToS}, {NoFile}, {0})

\* A line that is one of the choices on offer.
ValidAnswer ==
    /\ pc = "ask"
    /\ \E value \in {v \in Inputs : CheckChoice(ctx.choices, v) # <<>>} : Answer(value)

NextPrompt ==
    \/ \E pair \in PendingPairs : PromptAcceptance("c1", pair)
    \/ \E value \in Inputs : Answer(value)

\* The prompt is shown, and the user does not type lines that are no choice
\* for ever.
SpecPrompt ==
    /\ InitPrompt
    /\ [][NextPrompt]_vars
    /\ WF_vars(\E pair \in PendingPairs : PromptAcceptance("c1", pair))
    /\ WF_vars(ValidAnswer)

\* ------------------------------------------------------ a writer and a reader
\* Two conda processes on one channel.  One is in Path.write_text, which opens
\* the file for writing (creating it or cutting it to length zero), writes the
\* text buffer by buffer and closes it; pc is its position ("opened" after
\* the open, "partial" after a first buffer, "written" after the close) and
\* ctx the file it writes, whole before and whole after.  The other reads.
Partial == [kind |-> "partial"]

\* get_remote_metadata on a fresh cache file: the empty text is the "no ToS"
\* sentinel, a text that does not validate is CondaToSInvalidError.
ReadCachedEndpoint(file) ==
    IF file.content = EmptyContent
    THEN [exc |-> Exc("CondaToSMissingError", "get_remote_metadata"), metadata |-> None]
    ELSE IF file.content = Partial
    THEN [exc |-> Exc("CondaToSInvalidError", "get_remote_metadata"), metadata |-> None]
    ELSE [exc |-> None, metadata |-> file.content]

\* write_cached_endpoint(channel, metadata), at the open of write_text.
OpenCache(channel, metadata) ==
    /\ pc = "idle"
    /\ ctx' = [target |-> "cache", channel |-> channel,
               before |-> cache[channel], after |-> CacheFile(now, metadata)]
    /\ cache' = [cache EXCEPT ![channel] = CacheFile(now, EmptyContent)]
    /\ pc' = "opened"
    /\ UNCHANGED <<files, endpoint, now, envs, gathered, accepted, rejected,
                   non_interactive, channel_pairs, decided, console, raised, files0, last>>

\* write_metadata(tos_root, channel, metadata, tos_accepted=True), at the open
\* of write_text.
OpenRecord(tos_root, channel, metadata) ==
    /\ pc = "idle"
    /\ \E w \in {WriteMetadata(files, tos_root, channel, metadata, TRUE, now)} :
           /\ ctx' = [target |-> "record", channel |-> channel, path |-> w.pair.path,
                      before |-> files, after |-> w.files]
           /\ files' = {f \in files : f.path # w.pair.path}
                           \cup {[path |-> w.pair.path, metadata |-> EmptyContent]}
    /\ pc' = "opened"
    /\ UNCHANGED <<cache, endpoint, now, envs, gathered, accepted, rejected,
                   non_interactive, channel_pairs, decided, console, raised, files0, last>>

\* A first buffer of a long text reaches the file.
WriteBuffer ==
    /\ pc = "opened"
    /\ IF ctx.target = "cache"
       THEN /\ cache' = [cache EXCEPT ![ctx.channel].content = Partial]
            /\ UNCHANGED files
       ELSE /\ files' = {f \in files : f.path # ctx.path}
                            \cup {[path |-> ctx.path, metadata |-> Partial]}
            /\ UNCHANGED cache
    /\ pc' = "partial"
    /\ UNCHANGED <<endpoint, now, envs, ctx, gathered, accepted, rejected,
                   non_interactive, channel_pairs, decided, console, raised, files0, last>>

\* The rest of the text is written and the file closed.
CloseFile ==
    /\ pc \in {"opened", "partial"}
    /\ IF ctx.target = "cache"
       THEN /\ cache' = [cache EXCEPT ![ctx.channel] = ctx.after]
            /\ UNCHANGED files
       ELSE /\ files' = ctx.after
            /\ UNCHANGED cache
    /\ pc' = "written"
    /\ UNCHANGED <<endpoint, now, envs, ctx, gathered, accepted, rejected,
                   non_interactive, channel_pairs, decided, console, raised, files0, last>>

\* The reader fetches with a cache_timeout under which the cache file is
\* fresh: it reads the file as it is now.
ReaderFetch(channel) ==
    /\ cache[channel] # NoFile
    /\ \E r \in {ReadCachedEndpoint(cache[channel])} :
           last' = [op |-> "get_remote_metadata", channel |-> channel,
                    file |-> cache[channel], exc |-> r.exc, metadata |-> r.metadata,
                    pair |-> None]
    /\ UNCHANGED <<files, cache, endpoint, now, envs, pc, ctx, gathered, accepted,
                   rejected, non_interactive, channel_pairs, decided, console, raised,
                   files0>>

\* The reader reads the channel's record.
ReaderRead(channel) ==
    /\ \E local_pair \in {GetLocalMetadata(files, channel, <<>>)} :
           last' = [op |-> "get_local_metadata", channel |-> channel,
                    file |-> None, exc |-> None, metadata |-> None, pair |-> local_pair]
    /\ UNCHANGED <<files, cache, endpoint, now, envs, pc, ctx, gathered, accepted,
                   rejected, non_interactive, channel_pairs, decided, console, raised,
                   files0>>

\* c1 with at most one record and a cache file that is absent, the sentinel
\* or a document of version 1.
InitConcurrent ==
    InitWith(SingleStores("c1", TosRoots, Versions), {{}}, {NoToS}, {NoToS},
             {NoFile, CacheFile(0, EmptyContent)}
                 \cup {CacheFile(0, m) : m \in {p \in Payloads : p.extra_tos_accepted = "unset"
                                                               /\ p.text = "t1"
                                                               /\ p.version = 1}},
             {MaxTime})

NextConcurrent ==
    \/ \E metadata \in {m \in Payloads : m.text = "t2" /\ m.version = MaxVersion} :
          \/ OpenCache("c1", metadata)
          \/ \E tos_root \in TosRoots : OpenRecord(tos_root, "c1", metadata)
    \/ WriteBuffer
    \/ CloseFile
    \/ ReaderFetch("c1")
    \/ ReaderRead("c1")

SpecConcurrent == InitConcurrent /\ [][NextConcurrent]_vars

\* ------------------------------------------------------ roots and directories
\* The store with its directories: ctx.dirs holds the directories that exist.
\* get_search_path, consumed to its end.
ResolveSearchPath(extend_search_path) ==
    /\ pc \in {"idle", "called"}
    /\ last' = [op |-> "get_search_path", extend_search_path |-> extend_search_path,
                search_path |-> GetSearchPathIn(ctx.dirs, extend_search_path),
                before |-> ctx.dirs, after |-> ctx.dirs,
                prev |-> IF last = None THEN None ELSE [last EXCEPT !.prev = None]]
    /\ pc' = AfterCall
    /\ UNCHANGED <<files, cache, endpoint, now, envs, ctx, gathered, accepted, rejected,
                   non_interactive, channel_pairs, decided, console, raised, files0>>

\* write_metadata with the directories it creates.
WriteUnder(tos_root, channel, metadata) ==
    /\ pc \in {"idle", "called"}
    /\ \E w \in {WriteMetadata(files, tos_root, channel, metadata, TRUE, now)},
          made \in {Mkdir(ctx.dirs, tos_root, channel)} :
           /\ files' = w.files
           /\ ctx' = [ctx EXCEPT !.dirs = made]
           /\ last' = [op |-> "write_metadata", tos_root |-> tos_root,
                       channel |-> channel, before |-> ctx.dirs, after |-> made,
                       prev |-> IF last = None THEN None ELSE [last EXCEPT !.prev = None]]
    /\ pc' = AfterCall
    /\ UNCHANGED <<cache, endpoint, now, envs, gathered, accepted, rejected,
                   non_interactive, channel_pairs, decided, console, raised, files0>>

\* Between two calls somebody removes a root with all it holds.
RemoveRoot(tos_root) ==
    /\ pc = "called"
    /\ envs < MaxEnv
    /\ RootDir(tos_root) \in ctx.dirs
    /\ envs' = envs + 1
    /\ ctx' = [ctx EXCEPT !.dirs = {d \in @ : d.root # tos_root}]
    /\ files' = {f \in files : f.path.root # tos_root}
    /\ UNCHANGED <<cache, endpoint, now, pc, gathered, accepted, rejected,
                   non_interactive, channel_pairs, decided, console, raised, files0, last>>

\* An empty store in which any of the roots exist.
InitPaths ==
    /\ files = {}
    /\ cache = [c \in Channels |-> NoFile]
    /\ endpoint = [c \in Channels |-> NoToS]
    /\ now = 0
    /\ envs = 0
    /\ pc = "idle"
    /\ \E roots \in SUBSET LocalRoots : ctx = [dirs |-> {RootDir(r) : r \in roots}]
    /\ gathered = None
    /\ accepted = <<>>
    /\ rejected = <<>>
    /\ non_interactive = <<>>
    /\ channel_pairs = <<>>
    /\ decided = <<>>
    /\ console = <<>>
    /\ raised = None
    /\ files0 = files
    /\ last = None

NextPaths ==
    \/ \E extend_search_path \in {<<>>, <<"custom">>, <<"user", "custom">>,
                                  <<"custom", "custom">>} :
          ResolveSearchPath(extend_search_path)
    \/ \E tos_root \in LocalRoots, channel \in Channels,
          metadata \in {m \in Payloads : m.text = "t2" /\ m.version = MaxVersion} :
          WriteUnder(tos_root, channel, metadata)
    \/ \E tos_root \in LocalRoots : RemoveRoot(tos_root)

SpecPaths == InitPaths /\ [][NextPaths]_vars

\* ------------------------------------------------------- the run after a decision
\* conda tos accept (or reject) for c1, then the next command: get_one_tos
\* and _gather_tos for c1 at the same time, with the same root and the same
\* cache_timeout (ctx holds both), against the same endpoint.
Rerun ==
    /\ pc = "done"
    /\ last.op \in {"accept_tos", "reject_tos"}
    /\ last.exc = None
    /\ \E g \in {GetOneTos(files, cache[last.channel], endpoint[last.channel],
                             last.channel, ctx.tos_root, ctx.cache_timeout, now, FALSE)},
          t \in {GatherTos(<<last.channel>>,
                             [files |-> files, cache |-> cache, endpoint |-> endpoint,
                              tos_root |-> ctx.tos_root,
                              cache_timeout |-> ctx.cache_timeout,
                              time |-> now, denied |-> {}])} :
           /\ cache' = t.cache
           /\ gathered' = t
           /\ last' = [op |-> "get_one_tos", channel |-> last.channel,
                       tos_root |-> ctx.tos_root, exc |-> g.exc, pair |-> g.pair,
                       fetched |-> g.fetched, reconciled |-> g.pair,
                       before |-> cache[last.channel], prev |-> last]
    /\ pc' = "rerun"
    /\ UNCHANGED <<files, endpoint, now, envs, ctx, accepted, rejected,
                   non_interactive, channel_pairs, decided, console, raised, files0>>

\* c1 with up to two records, any endpoint, and a cache file that is absent,
\* the sentinel or a document, written at time 0; the commands run at time 0
\* or later.
InitRerun ==
    /\ files \in PairStores("c1")
    /\ \E k \in {NoFile, CacheFile(0, EmptyContent)}
                  \cup {CacheFile(0, m) : m \in {p \in Payloads : p.extra_tos_accepted = "unset"}} :
          cache = [c \in Channels |-> IF c = "c1" THEN k ELSE NoFile]
    /\ \E e \in EndpointValues :
          endpoint = [c \in Channels |-> IF c = "c1" THEN e ELSE NoToS]
    /\ now \in Times
    /\ envs = 0
    /\ pc = "idle"
    /\ \E tos_root \in TosRoots, cache_timeout \in Timeouts :
          ctx = [tos_root |-> tos_root, cache_timeout |-> cache_timeout]
    /\ gathered = None
    /\ accepted = <<>>
    /\ rejected = <<>>
    /\ non_interactive = <<>>
    /\ channel_pairs = <<>>
    /\ decided = <<>>
    /\ console = <<>>
    /\ raised = None
    /\ files0 = files
    /\ last = None

NextRerun ==
    \/ Accept("c1", ctx.tos_root, ctx.cache_timeout, {})
    \/ Reject("c1", ctx.tos_root, ctx.cache_timeout, {})
    \/ Rerun

SpecRerun == InitRerun /\ [][NextRerun]_vars

\* ------------------------------------------------------ commands in sequence
\* The next command starts: conda tos accept, conda tos reject or a workflow
\* run for c1, with the store and the cache as the commands before left them.
\* Meanwhile the endpoint may have changed.  envs counts the commands that are
\* over.
NewCommand(value) ==
    /\ pc = "done"
    /\ envs < MaxEnv
    /\ envs' = envs + 1
    /\ endpoint' = [endpoint EXCEPT !["c1"] = value]
    /\ pc' = "idle"
    /\ ctx' = None
    /\ gathered' = None
    /\ accepted' = <<>>
    /\ rejected' = <<>>
    /\ non_interactive' = <<>>
    /\ channel_pairs' = <<>>
    /\ decided' = <<>>
    /\ console' = <<>>
    /\ raised' = None
    /\ files0' = files
    /\ last' = None
    /\ UNCHANGED <<files, cache, now>>

\* What the endpoint of c1 answers over the commands: 404 or a document of
\* any version.
SequenceEndpoints ==
    {NoToS} \cup {m \in Payloads : m.text = "t1" /\ m.extra_tos_accepted = "unset"}

\* c1 with at most one record, no cache file.
InitSequence ==
    InitWith(SingleStores("c1", TosRoots, Versions), {{}}, SequenceEndpoints, {NoToS},
             {NoFile}, {0})

NextSequence ==
    \/ \E tos_root \in LocalRoots, cache_timeout \in {TimeoutIgnore, TimeoutInf} :
          \/ Accept("c1", tos_root, cache_timeout, {})
          \/ Reject("c1", tos_root, cache_timeout, {})
          \/ \E c \in Contexts : RenderInteractive(<<"c1">>, tos_root, cache_timeout, {}, c)
    \/ \E response \in Responses : ProcessChannelPair(response)
    \/ \E value \in SequenceEndpoints : NewCommand(value)

SpecSequence == InitSequence /\ [][NextSequence]_vars

\* --------------------------------------------------------------- CI detection
\* The values the CI systems and the user give the variables.
EnvValues == {<<>>, <<"">>, <<"true">>, <<"false">>, <<"woodpecker">>}
Cgroups == {"docker", "user.slice", "OSError"}

\* A process is started in an environment: ctx is what it sees of its
\* operating system.
InitCi ==
    /\ files = {}
    /\ cache = [c \in Channels |-> NoFile]
    /\ endpoint = [c \in Channels |-> NoToS]
    /\ now = 0
    /\ envs = 0
    /\ pc = "idle"
    /\ \E a \in EnvValues, c \in EnvValues, t \in EnvValues,
          j \in {<<>>, <<"">>, <<"http://jenkins">>}, b \in {<<>>, <<"7">>},
          k \in {<<>>, <<"podman">>}, pid \in {1, 4242}, cgroup \in Cgroups :
          ctx = [environ |-> [APPVEYOR |-> a, CI |-> c, TRAVIS |-> t, JENKINS_URL |-> j,
                              BUILD_ID |-> b, CONTAINER |-> k],
                 pid |-> pid, cgroup |-> cgroup]
    /\ gathered = None
    /\ accepted = <<>>
    /\ rejected = <<>>
    /\ non_interactive = <<>>
    /\ channel_pairs = <<>>
    /\ decided = <<>>
    /\ console = <<>>
    /\ raised = None
    /\ files0 = files
    /\ last = None

\* The user exports a boolean CI variable before starting conda.
Export(var, value) ==
    /\ pc = "idle"
    /\ envs < MaxEnv
    /\ ctx.environ[var] # value
    /\ ctx' = [ctx EXCEPT !.environ[var] = value]
    /\ envs' = envs + 1
    /\ UNCHANGED <<files, cache, endpoint, now, pc, gathered, accepted, rejected,
                   non_interactive, channel_pairs, decided, console, raised, files0, last>>

\* The module is imported: CI = _is_ci().
ImportApi ==
    /\ pc = "idle"
    /\ \E r \in {IsCi(ctx)} :
          /\ last' = [op |-> "_is_ci", exc |-> r.exc, value |-> r.value]
          /\ raised' = r.exc
    /\ pc' = "done"
    /\ UNCHANGED <<files, cache, endpoint, now, envs, ctx, gathered, accepted, rejected,
                   non_interactive, channel_pairs, decided, console, files0>>

NextCi ==
    \/ \E i \in DOMAIN CI_BOOLEAN_VARS, value \in EnvValues :
          Export(CI_BOOLEAN_VARS[i], value)
    \/ ImportApi

SpecCi == InitCi /\ [][NextCi]_vars

\* ------------------------------------------------------------------ properties
\* The channels of a sequence of entries (the accepted map, the pending pairs,
\* the resolved channels).
ChannelsOf(s) == {s[i].channel : i \in DOMAIN s}

\* The records of a channel in a store, whatever the root, and the newest.
Records(fs, channel) ==
    {f \in fs : f.path.channel = channel /\ f.metadata.kind = "local"}

Newest(fs, channel) ==
    {f \in Records(fs, channel) :
        \A g \in Records(fs, channel) : g.metadata.version <= f.metadata.version}

\* The workflow has ended; it returned normally with every channel that has
\* metadata in the accepted map, made of gather's accepted channels and the
\* pending channels resolved to ACCEPTED.
WorkflowDone == pc = "done" /\ ctx # None

ResolvedTo(state) == {decided[i].channel : i \in {j \in DOMAIN decided : decided[j].state = state}}

ReturnedAll ==
    /\ raised = None
    /\ \A i \in DOMAIN gathered.seen :
          gathered.seen[i].exc = None => gathered.seen[i].channel \in ChannelsOf(accepted)
    /\ ChannelsOf(accepted) = ChannelsOf(gathered.accepted) \cup ResolvedTo("ACCEPTED")
    /\ ResolvedTo("REJECTED") = {}
    /\ ResolvedTo("DEFERRED") = {}

BatchErrors == {"CondaToSRejectedError", "CondaToSNonInteractiveError"}

\* A write to the cache directory or to tos_root was refused.
PermissionDenied ==
    /\ raised.type = "CondaToSPermissionError"
    /\ \/ raised.raised_by = "write_cached_endpoint" /\ "cache" \in ctx.denied
       \/ raised.raised_by = "write_metadata" /\ "store" \in ctx.denied

\* accept_tos or reject_tos found neither remote nor local metadata: the
\* channel's terms were taken down after gather had fetched them.
VanishedAfterGather ==
    /\ IsMissingError(raised)
    /\ last # None
    /\ last.op \in {"accept_tos", "reject_tos"}
    /\ last.exc = raised
    /\ Records(files, last.channel) = {}
    /\ endpoint[last.channel] = NoToS
    /\ envs > 0

Reconciled == last # None /\ last.op = "get_one_tos"

\* C2: with a local record L (the newest of the channel) and fetched remote
\* metadata R, get_one_tos returns L's metadata and path with remote = R when
\* R.version > L.version, and exactly the local pair, no remote attached, when
\* R.version <= L.version; a returned pair has remote set only when
\* remote.version > metadata.version.
C2_ReconcileVersions ==
    /\ (Reconciled /\ Records(files, last.channel) # {} /\ last.fetched.metadata # None) =>
          /\ last.exc = None
          /\ \E L \in Newest(files, last.channel) :
                IF last.fetched.metadata.version > L.metadata.version
                THEN last.pair = LocalPair(L.metadata, L.path, last.fetched.metadata)
                ELSE last.pair = LocalPair(L.metadata, L.path, None)
    /\ (Reconciled /\ last.pair # None /\ last.pair.remote # None) =>
          last.pair.remote.version > last.pair.metadata.version

C2_Witness ==
    /\ Reconciled
    /\ last.pair # None
    /\ last.pair.remote # None
    /\ last.pair.metadata.tos_accepted
    /\ last.pair.remote.version = last.pair.metadata.version + 1

\* C3: when the remote fetch raises CondaToSMissingError and the channel has
\* no local record in any root, get_one_tos raises the exception of the remote
\* fetch and returns no pair.
C3_BothMissingRaisesRemote ==
    (Reconciled /\ Records(files, last.channel) = {} /\ IsMissingError(last.fetched.exc)) =>
        /\ last.exc = last.fetched.exc
        /\ IsMissingError(last.exc)
        /\ last.pair = None

C3_Witness ==
    /\ Reconciled
    /\ Records(files, last.channel) = {}
    /\ IsMissingError(last.fetched.exc)
    /\ last.fetched.network
    /\ last.exc # None

\* C4: each pending channel resolves to exactly one state by first match:
\* auto_accept_tos gives ACCEPTED; otherwise CI gives ACCEPTED; otherwise any
\* of json mode, always_yes, notebook or non-interactive terminal gives
\* DEFERRED; otherwise the answer to the prompt gives ACCEPTED or REJECTED.
\* Only the last case prompts.
C4_DecisionPriority ==
    ctx # None =>
        \A i \in DOMAIN decided :
            LET c == ctx.env
                e == decided[i]
                prompts == {k \in DOMAIN console : /\ console[k].event = "prompt"
                                                   /\ console[k].channel = e.channel}
            IN  /\ e.state \in {"ACCEPTED", "REJECTED", "DEFERRED"}
                /\ IF c.auto_accept_tos THEN e.state = "ACCEPTED" /\ prompts = {}
                   ELSE IF c.CI THEN e.state = "ACCEPTED" /\ prompts = {}
                   ELSE IF c.json_mode \/ c.always_yes \/ c.JUPYTER \/ ~c.IS_INTERACTIVE
                   THEN e.state = "DEFERRED" /\ prompts = {}
                   ELSE /\ Cardinality(prompts) = 1
                        /\ \A k \in prompts :
                              e.state = IF console[k].text = "accept" THEN "ACCEPTED"
                                        ELSE "REJECTED"

C4_Witness ==
    /\ ctx # None
    /\ ctx.env = Context(FALSE, FALSE, FALSE, TRUE, FALSE, TRUE)
    /\ decided # <<>>
    /\ decided[1].state = "DEFERRED"

\* C5: when gather returns with at least one channel classified as rejected,
\* the workflow ends in CondaToSRejectedError listing all of them, every
\* current local rejection included, with no pending channel processed: no
\* prompt, no acknowledgment, no record written or changed.
C5_FailFast ==
    (gathered # None /\ gathered.exc = None /\ gathered.rejected # <<>>) =>
        /\ pc = "done"
        /\ raised = BatchExc("CondaToSRejectedError", gathered.rejected)
        /\ \A i \in DOMAIN gathered.seen :
              LET e == gathered.seen[i]
              IN  (/\ e.exc = None
                   /\ e.pair.kind = "LocalPair"
                   /\ e.pair.remote = None
                   /\ ~e.pair.metadata.tos_accepted) =>
                      e.channel \in SeqToSet(raised.channels)
        /\ console = <<>>
        /\ decided = <<>>
        /\ files = files0

C5_Witness ==
    /\ gathered # None
    /\ gathered.exc = None
    /\ gathered.rejected # <<>>
    /\ gathered.channel_pairs # <<>>
    /\ Records(files0, gathered.rejected[1]) # {}
    /\ pc = "done"

\* C6: when a pending channel resolves to DEFERRED, the local store stays as
\* it was when the command started, and the workflow ends in
\* CondaToSNonInteractiveError naming the channel.
C6_DeferredWritesNothing ==
    \A i \in DOMAIN decided :
        decided[i].state = "DEFERRED" =>
            /\ files = files0
            /\ pc = "done" =>
                  /\ raised # None
                  /\ raised.type = "CondaToSNonInteractiveError"
                  /\ decided[i].channel \in SeqToSet(raised.channels)

C6_Witness ==
    /\ pc = "done"
    /\ Len(decided) = 2
    /\ decided[1].state = "DEFERRED"
    /\ raised # None
    /\ Len(raised.channels) = 2

\* accept_tos or reject_tos wrote a record and its observation is the latest.
Wrote == last # None /\ last.op \in {"accept_tos", "reject_tos"} /\ last.exc = None

\* C7: the record accept_tos or reject_tos writes is under tos_root, at the
\* version and with the text of the remote metadata when the reconciled pair
\* is outdated or has no local record, of the local metadata otherwise, and
\* its tos_accepted is the decision.
C7_WritesLatest ==
    Wrote =>
        LET p == last.reconciled
            expected == IF p.remote # None THEN p.remote ELSE p.metadata
        IN  /\ p.kind = "RemotePair" => expected.kind = "remote"
            /\ (p.kind = "LocalPair" /\ p.remote = None) => expected.kind = "local"
            /\ last.pair.path = GetMetadataPath(last.tos_root, last.channel, expected.version)
            /\ \E f \in files :
                  /\ f.path = last.pair.path
                  /\ f.metadata = last.pair.metadata
                  /\ f.metadata.version = expected.version
                  /\ f.metadata.text = expected.text
                  /\ f.metadata.tos_accepted = (last.op = "accept_tos")

C7_Witness ==
    /\ Wrote
    /\ last.op = "accept_tos"
    /\ last.reconciled.remote # None
    /\ ~last.reconciled.metadata.tos_accepted
    /\ last.pair.metadata.version = last.reconciled.remote.version

\* Where gather put a channel.
InAccepted(g, channel) == channel \in ChannelsOf(g.accepted)
InRejected(g, channel) == channel \in SeqToSet(g.rejected)
InPending(g, channel) == channel \in ChannelsOf(g.channel_pairs)

\* C8: gather puts every channel that has metadata in the pending list if its
\* pair is outdated or carries no decision, in the accepted map if it has a
\* current local decision with tos_accepted true, in the rejected list if it
\* has a current local decision with tos_accepted false, and nowhere else.
C8_GatherClassification ==
    gathered # None =>
        \A i \in DOMAIN gathered.seen :
            LET e == gathered.seen[i]
                g == gathered
            IN  e.exc = None =>
                    IF e.pair.remote # None \/ e.pair.kind = "RemotePair"
                    THEN /\ InPending(g, e.channel)
                         /\ ~InAccepted(g, e.channel)
                         /\ ~InRejected(g, e.channel)
                    ELSE IF e.pair.metadata.tos_accepted
                    THEN /\ InAccepted(g, e.channel)
                         /\ ~InPending(g, e.channel)
                         /\ ~InRejected(g, e.channel)
                    ELSE /\ InRejected(g, e.channel)
                         /\ ~InPending(g, e.channel)
                         /\ ~InAccepted(g, e.channel)

\* C9: gather never puts a channel without local record in any root in the
\* accepted map or the rejected list; when its remote metadata was fetched
\* the channel is pending, whatever extra fields the payload carries.
C9_NoRecordNeverDecided ==
    gathered # None =>
        \A i \in DOMAIN gathered.seen :
            LET e == gathered.seen[i]
            IN  Records(files0, e.channel) = {} =>
                    /\ ~InAccepted(gathered, e.channel)
                    /\ ~InRejected(gathered, e.channel)
                    /\ e.fetched.metadata # None => InPending(gathered, e.channel)

\* C10: a channel for which the remote fetch reports missing metadata and
\* that has no local record is in none of gather's outputs, gather does not
\* raise for it, and the channels after it are still looked at and, when they
\* have metadata, classified.
C10_MissingExcluded ==
    gathered # None =>
        \A i \in DOMAIN gathered.seen :
            LET e == gathered.seen[i]
            IN  (IsMissingError(e.fetched.exc) /\ Records(files0, e.channel) = {}) =>
                    /\ ~InAccepted(gathered, e.channel)
                    /\ ~InRejected(gathered, e.channel)
                    /\ ~InPending(gathered, e.channel)
                    /\ i = Len(gathered.seen) => gathered.exc = None
                    /\ gathered.exc = None =>
                          Len(gathered.seen) = Cardinality(SeqToSet(ctx.channels))
                    /\ \A j \in DOMAIN gathered.seen :
                          (j > i /\ gathered.seen[j].exc = None) =>
                              \/ InAccepted(gathered, gathered.seen[j].channel)
                              \/ InRejected(gathered, gathered.seen[j].channel)
                              \/ InPending(gathered, gathered.seen[j].channel)

C10_Witness ==
    /\ gathered # None
    /\ gathered.exc = None
    /\ Len(gathered.seen) = 2
    /\ IsMissingError(gathered.seen[1].exc)
    /\ Records(files0, gathered.seen[1].channel) = {}
    /\ gathered.seen[2].exc = None
    /\ InPending(gathered, gathered.seen[2].channel)

\* get_remote_metadata was called and its observation is the latest.
Fetched == last # None /\ last.op = "get_remote_metadata"

PositiveFinite(cache_timeout) ==
    cache_timeout # None /\ ~cache_timeout.inf /\ cache_timeout.secs > 0

\* The call l was answered from the cache file as it was: no network call, the
\* file untouched, its document returned or, for the empty file,
\* CondaToSMissingError raised.
FromCache(l) ==
    /\ l.before # NoFile
    /\ ~l.network
    /\ l.after = l.before
    /\ IF l.before.content = EmptyContent
       THEN IsMissingError(l.exc) /\ l.metadata = None
       ELSE l.exc = None /\ l.metadata = l.before.content

\* The call l asked the network and did not return the cache file's content.
FromNetwork(l) ==
    /\ l.network
    /\ l.exc = None => l.metadata = endpoint[l.channel]

\* C12 as stated: for a positive finite cache_timeout and a cache file written
\* at time t, a fetch at t' with t' - t < cache_timeout is answered from the
\* cache file without network call, and a fetch with t' - t >= cache_timeout
\* makes a network call.
C12_CacheRoundTrip ==
    (Fetched /\ PositiveFinite(last.cache_timeout) /\ last.before # NoFile) =>
        IF last.time - last.before.mtime < last.cache_timeout.secs
        THEN FromCache(last)
        ELSE last.network

\* C12, amended: for a positive finite cache_timeout and a cache file written
\* at time t, a fetch at t' with t' - t < cache_timeout is answered from the
\* cache file without network call; a fetch with t' - t >= cache_timeout makes
\* a network call unless conda is in offline mode, where it is answered from
\* the cache file too.
C12_CacheRoundTripOnline ==
    (Fetched /\ PositiveFinite(last.cache_timeout) /\ last.before # NoFile) =>
        IF last.time - last.before.mtime < last.cache_timeout.secs
        THEN FromCache(last)
        ELSE IF last.offline THEN FromCache(last)
        ELSE last.network

C12_Witness ==
    /\ Fetched
    /\ last.prev # None
    /\ last.prev.network
    /\ last.prev.exc = None
    /\ last.before = CacheFile(last.prev.time, last.prev.metadata)
    /\ PositiveFinite(last.cache_timeout)
    /\ ~last.offline
    /\ last.time - last.before.mtime >= last.cache_timeout.secs
    /\ last.network

\* C13 as stated: with a cache_timeout of zero or None every fetch makes a
\* network call and never returns the content of the cache file, whatever
\* the file's age and in every execution context.
C13_FalsyAlwaysFetches ==
    (Fetched /\ Falsy(last.cache_timeout)) => FromNetwork(last)

\* C13, amended: with a cache_timeout of zero or None every fetch outside
\* offline mode makes a network call and never returns the content of the
\* cache file, whatever the file's age; in offline mode no fetch makes a
\* network call and an existing cache file answers it.
C13_FalsyFetchesOnline ==
    (Fetched /\ Falsy(last.cache_timeout)) =>
        IF ~last.offline THEN FromNetwork(last)
        ELSE /\ ~last.network
             /\ last.before # NoFile => FromCache(last)

C13_Witness ==
    /\ Fetched
    /\ Falsy(last.cache_timeout)
    /\ ~last.offline
    /\ last.before # NoFile
    /\ last.before.content # EmptyContent
    /\ last.time = last.before.mtime
    /\ last.network
    /\ last.metadata # None
    /\ last.metadata # last.before.content

\* C14: with a cache_timeout of infinity, and in offline mode whatever the
\* cache_timeout, an existing cache file answers the fetch without network
\* call, however old the file is.
C14_InfNeverExpires ==
    (Fetched /\ (last.offline \/ last.cache_timeout = TimeoutInf) /\ last.before # NoFile) =>
        FromCache(last)

C14_Witness ==
    /\ Fetched
    /\ last.offline
    /\ last.cache_timeout = TimeoutIgnore
    /\ last.before # NoFile
    /\ last.time - last.before.mtime >= 1
    /\ last.metadata # None

\* C15: after a fetch that asked the network and ended in CondaToSMissingError
\* the cache file exists and is empty, whatever it held before; a later fetch
\* within cache_timeout raises CondaToSMissingError without network call.
C15_SentinelWritten ==
    /\ (Fetched /\ last.network /\ IsMissingError(last.exc)) =>
          /\ last.after # NoFile
          /\ last.after.content = EmptyContent
    /\ (/\ Fetched
        /\ last.prev # None
        /\ last.prev.network
        /\ IsMissingError(last.prev.exc)
        /\ PositiveFinite(last.cache_timeout)
        /\ last.time - last.prev.time < last.cache_timeout.secs) =>
          /\ ~last.network
          /\ IsMissingError(last.exc)

\* _gather_tos was called again and its observation is the latest.
GatheredAgain == last # None /\ last.op = "_gather_tos" /\ last.prev # None

\* C11: two consecutive calls of gather with the same arguments, with no
\* write to the local store between them and an endpoint that answers the
\* same, return the same accepted, rejected and pending channels.
C11_GatherIdempotent ==
    GatheredAgain =>
        /\ ChannelsOf(gathered.accepted) = ChannelsOf(last.prev.accepted)
        /\ SeqToSet(gathered.rejected) = SeqToSet(last.prev.rejected)
        /\ ChannelsOf(gathered.channel_pairs) = ChannelsOf(last.prev.channel_pairs)

\* C19: when a channel has a local record and the remote fetch raises
\* CondaToSMissingError, get_one_tos raises nothing and returns the newest
\* local pair with no remote attached, and gather classifies the channel by
\* the decision of that record.
C19_LocalStandsWithoutRemote ==
    gathered # None =>
        \A i \in DOMAIN gathered.seen :
            LET e == gathered.seen[i]
            IN  (Records(files, e.channel) # {} /\ IsMissingError(e.fetched.exc)) =>
                    /\ e.exc = None
                    /\ \E L \in Newest(files, e.channel) :
                          /\ e.pair = LocalPair(L.metadata, L.path, None)
                          /\ IF L.metadata.tos_accepted
                             THEN /\ InAccepted(gathered, e.channel)
                                  /\ ~InRejected(gathered, e.channel)
                                  /\ ~InPending(gathered, e.channel)
                             ELSE /\ InRejected(gathered, e.channel)
                                  /\ ~InAccepted(gathered, e.channel)
                                  /\ ~InPending(gathered, e.channel)

C19_Witness ==
    /\ gathered # None
    /\ gathered.seen # <<>>
    /\ Records(files, gathered.seen[1].channel) # {}
    /\ IsMissingError(gathered.seen[1].fetched.exc)
    /\ ~gathered.seen[1].fetched.network
    /\ InRejected(gathered, gathered.seen[1].channel)

\* get_local_metadata, or write_metadata, was called and its observation is
\* the latest.
ReadLocal == last # None /\ last.op = "get_local_metadata"
WroteLocal == last # None /\ last.op = "write_metadata"

\* The valid records of a channel in the roots of a search path, and the
\* position of a root in a search path.
RecordsIn(fs, channel, search_path) ==
    {f \in Records(fs, channel) : f.path.root \in SeqToSet(search_path)}

Priority(search_path, tos_root) == CHOOSE i \in DOMAIN search_path : search_path[i] = tos_root

\* C16: get_local_metadata returns a record of the maximal version among the
\* valid records of the channel in the roots of the search path, built-in and
\* extended, whatever the roots' priorities; with no such record it raises
\* CondaToSMissingError.
C16_ReadsNewest ==
    ReadLocal =>
        LET found == RecordsIn(files, last.channel, GetSearchPath(last.extend_search_path))
        IN  IF found = {} THEN last.pair = None
            ELSE /\ last.pair # None
                 /\ \E f \in found : last.pair = LocalPair(f.metadata, f.path, None)
                 /\ \A f \in found : f.metadata.version <= last.pair.metadata.version

C16_Witness ==
    /\ ReadLocal
    /\ last.pair # None
    /\ last.pair.path.root = "custom"
    /\ \E f \in Records(files, last.channel) :
          /\ f.path.root = "site"
          /\ f.metadata.version < last.pair.metadata.version
    /\ \E f \in files : f.path.channel = last.channel /\ f.metadata = Garbage

\* write_metadata, then get_local_metadata for the same channel with the
\* written root in the search path and no record of a newer version there.
WroteThenRead ==
    /\ ReadLocal
    /\ last.prev # None
    /\ last.prev.op = "write_metadata"
    /\ last.prev.channel = last.channel
    /\ last.prev.tos_root \in SeqToSet(GetSearchPath(last.extend_search_path))
    /\ \A f \in RecordsIn(files, last.channel, GetSearchPath(last.extend_search_path)) :
          f.metadata.version <= last.prev.pair.metadata.version

\* The written record, field for field.
ReadsWritten ==
    /\ last.pair = last.prev.pair
    /\ last.pair.path = GetMetadataPath(last.prev.tos_root, last.channel,
                                        last.prev.metadata.version)
    /\ last.pair.metadata.version = last.prev.metadata.version
    /\ last.pair.metadata.text = last.prev.metadata.text
    /\ last.pair.metadata.tos_accepted = last.prev.tos_accepted
    /\ last.pair.metadata.base_url = last.channel
    /\ last.pair.metadata.acceptance_timestamp = last.prev.time

\* C17 as stated: write then read returns the written record, provided no
\* record of a strictly newer version exists, whatever the other roots hold.
C17_WriteReadRoundTrip == WroteThenRead => ReadsWritten

\* C17, amended: write then read returns the written record, provided no
\* record of a strictly newer version exists and no root of higher priority
\* in the search path holds a record of the same version; otherwise read
\* returns a record of the written version from a root of higher priority.
C17_WriteReadRoundTripByPriority ==
    WroteThenRead =>
        LET search_path == GetSearchPath(last.extend_search_path)
            above == {f \in RecordsIn(files, last.channel, search_path) :
                         /\ f.metadata.version = last.prev.pair.metadata.version
                         /\ Priority(search_path, f.path.root)
                                < Priority(search_path, last.prev.tos_root)}
        IN  IF above = {} THEN ReadsWritten
            ELSE \E f \in above : last.pair = LocalPair(f.metadata, f.path, None)

C17_Witness ==
    /\ WroteThenRead
    /\ ReadsWritten
    /\ last.prev.tos_root = "site"
    /\ \E f \in Records(files, last.channel) :
          /\ f.path.root = "user"
          /\ f.metadata.version = last.pair.metadata.version
          /\ f.metadata.tos_accepted # last.pair.metadata.tos_accepted

\* C18: write_metadata creates or replaces exactly the file of its root,
\* channel and version, and leaves every other file of the store as it was.
C18_WritesOneFile ==
    WroteLocal =>
        LET path == GetMetadataPath(last.tos_root, last.channel, last.metadata.version)
        IN  /\ last.pair.path = path
            /\ {f \in files : f.path = path} = {[path |-> path, metadata |-> last.pair.metadata]}
            /\ {f \in files : f.path # path} = {f \in last.before : f.path # path}

C18_Witness ==
    /\ WroteLocal
    /\ last.prev # None
    /\ last.prev.op = "write_metadata"
    /\ last.prev.pair.path = last.pair.path
    /\ last.prev.pair.metadata # last.pair.metadata
    /\ \E f \in files : /\ f.path.root = last.tos_root
                        /\ f.path.channel = last.channel
                        /\ f.path.version < last.metadata.version
    /\ \E f \in files : f.path.channel # last.channel

\* The pending channels that resolved to a state, in the order of the pass.
ResolvedSeq(state) ==
    LET sel == SelectSeq(decided, LAMBDA e : e.state = state)
    IN  [i \in 1..Len(sel) |-> sel[i].channel]

\* C20: after the pending pass one error is raised for the batch: when
\* channels resolved to DEFERRED, CondaToSNonInteractiveError listing all of
\* them; otherwise, when channels were rejected in the pass and every decision
\* was written, CondaToSRejectedError listing all of them.
C20_BatchErrorsEnumerate ==
    (WorkflowDone /\ decided # <<>>) =>
        /\ ResolvedTo("DEFERRED") # {} =>
              raised = BatchExc("CondaToSNonInteractiveError", ResolvedSeq("DEFERRED"))
        /\ (/\ ResolvedTo("DEFERRED") = {}
            /\ ResolvedTo("REJECTED") # {}
            /\ last.exc = None) =>
              raised = BatchExc("CondaToSRejectedError", ResolvedSeq("REJECTED"))
        /\ (raised # None /\ raised.type = "CondaToSNonInteractiveError") =>
              raised.channels = ResolvedSeq("DEFERRED")
        /\ (raised # None /\ raised.type = "CondaToSRejectedError") =>
              raised.channels = ResolvedSeq("REJECTED")

C20_Witness ==
    /\ WorkflowDone
    /\ Len(decided) = 2
    /\ raised # None
    /\ raised.type = "CondaToSRejectedError"
    /\ Len(raised.channels) = 2
    /\ ResolvedTo("REJECTED") = SeqToSet(raised.channels)

\* ------------------------------------------------------------------------ C21
\* A call of get_endpoint that is over, by a response, by CondaToSMissingError
\* or by any other exception.
EndpointOver == pc \in {"called", "done"} /\ last # None /\ last.op = "get_endpoint"

\* C21: after every call of get_endpoint, whether it returned a response,
\* raised CondaToSMissingError for a request failure or raised any other
\* exception, context.add_anaconda_token has the value it had before the
\* call; while the HTTP request runs it is false.
C21_TokenSettingRestored ==
    /\ EndpointOver => last.after = last.before
    /\ pc = "request" => ctx.add_anaconda_token = FALSE
    /\ (last # None /\ last.op = "get_endpoint")
           => \A i \in DOMAIN last.during : last.during[i] = FALSE

\* A second call that started with the setting on and was ended by an
\* exception that is not a request failure.
C21_Witness ==
    /\ EndpointOver
    /\ pc = "done"
    /\ last.before = TRUE
    /\ last.during = <<FALSE>>
    /\ ctx.add_anaconda_token = TRUE
    /\ raised # None /\ raised.type = "RuntimeError"

\* ------------------------------------------------------------------------ C22
\* The exception of a fetch whose cache write was refused.
CacheWriteRefused(e) ==
    /\ e # None
    /\ e.type = "CondaToSPermissionError"
    /\ e.raised_by = "write_cached_endpoint"

\* C22: a permission error while writing the cache file during a fetch is
\* neither swallowed nor turned into CondaToSMissingError: when the cache
\* directory refuses writes, every fetch that asked the network, whether the
\* endpoint answered with a document or with no ToS, ends with
\* CondaToSPermissionError, and so do the get_one_tos, the _gather_tos and the
\* render_interactive that triggered it; no later channel is looked at.
C22_CachePermissionSurfaces ==
    (pc # "idle" /\ gathered # None /\ "cache" \in ctx.denied)
        => \A i \in DOMAIN gathered.seen :
               gathered.seen[i].fetched.network
                   => /\ CacheWriteRefused(gathered.seen[i].fetched.exc)
                      /\ gathered.seen[i].exc = gathered.seen[i].fetched.exc
                      /\ gathered.seen[i].pair = None
                      /\ gathered.exc = gathered.seen[i].exc
                      /\ raised = gathered.exc
                      /\ pc = "done"
                      /\ i = Len(gathered.seen)

\* The workflow ended by the refused write of the "no ToS" sentinel of a
\* channel that has a local record.
C22_Witness ==
    /\ WorkflowDone
    /\ "cache" \in ctx.denied
    /\ CacheWriteRefused(raised)
    /\ Len(gathered.seen) = 1
    /\ endpoint[gathered.seen[1].channel] = NoToS
    /\ Records(files, gathered.seen[1].channel) # {}

\* ------------------------------------------------------------------------ C23
\* C23: every CondaToSPermissionError the engine raises, on writing the
\* cache, on reading the cache, on writing a record and on reading a record,
\* carries the offending path and the channel it was raised for.
C23_PermissionErrorNamesChannel ==
    (raised # None /\ raised.type = "CondaToSPermissionError")
        => /\ raised.path \in {GetCachePath(last.channel)}
                               \cup {GetMetadataPath(r, last.channel, v) :
                                         r \in TosRoots, v \in Versions}
           /\ raised.channels = <<last.channel>>

\* ------------------------------------------------------------------------ C24
\* C24: get_local_metadata treats a corrupt or schema-invalid record file as
\* absent: it returns the newest of the channel's remaining valid records and
\* raises CondaToSMissingError only when none remains; a damaged file makes
\* it fail with no other error and hides no older valid record.
C24_DamagedTreatedAbsent ==
    (ReadLocal /\ pc \in {"called", "done"}) =>
        LET found == RecordsIn(files, last.channel, GetSearchPath(last.extend_search_path))
        IN  IF found = {}
            THEN last.pair = None /\ last.exc.type = "CondaToSMissingError"
            ELSE /\ last.exc = None
                 /\ last.pair # None
                 /\ \E f \in found : last.pair = LocalPair(f.metadata, f.path, None)
                 /\ \A f \in found : f.metadata.version <= last.pair.metadata.version

\* ------------------------------------------------------------------------ C25
\* get_local_metadatas was called and its observation is the latest.
ListedLocal == last # None /\ last.op = "get_local_metadatas"

\* C25: get_local_metadatas yields every channel that has at least one valid
\* record in a root of the search path exactly once, and no other channel,
\* each paired with a record of the maximal version among all that channel's
\* valid records in all roots of the search path.
C25_ListsEveryChannelOnce ==
    ListedLocal =>
        LET search_path == GetSearchPath(last.extend_search_path)
            listed == last.listed
        IN  /\ {listed[i].channel : i \in DOMAIN listed}
                   = {c \in Channels : RecordsIn(files, c, search_path) # {}}
            /\ \A i, j \in DOMAIN listed : listed[i].channel = listed[j].channel => i = j
            /\ \A i \in DOMAIN listed :
                   LET found == RecordsIn(files, listed[i].channel, search_path)
                   IN  /\ \E f \in found :
                              listed[i].pair = LocalPair(f.metadata, f.path, None)
                       /\ \A f \in found :
                              f.metadata.version <= listed[i].pair.metadata.version

\* Two channels listed, one of them with its newest record in the root only
\* the caller names and an older record in a built-in root.
C25_Witness ==
    /\ ListedLocal
    /\ Len(last.listed) = 2
    /\ \E i \in DOMAIN last.listed :
          /\ last.listed[i].pair.path.root = "custom"
          /\ \E f \in Records(files, last.listed[i].channel) :
                /\ f.path.root \in TosRoots
                /\ f.metadata.version < last.listed[i].pair.metadata.version

\* ------------------------------------------------------------------------ C29
\* The records of the newest version of a channel in the roots of a search
\* path, and whether a pair is the one among them of the root that comes
\* first in the search path.
NewestIn(fs, channel, search_path) ==
    {f \in RecordsIn(fs, channel, search_path) :
        \A g \in RecordsIn(fs, channel, search_path) :
            g.metadata.version <= f.metadata.version}

FromHighestPriority(pair, fs, channel, search_path) ==
    /\ \E f \in NewestIn(fs, channel, search_path) :
           pair = LocalPair(f.metadata, f.path, None)
    /\ \A f \in NewestIn(fs, channel, search_path) :
           Priority(search_path, pair.path.root) <= Priority(search_path, f.path.root)

\* C29: when several roots hold a record of the same, newest version of a
\* channel, get_local_metadata and get_local_metadatas return the record of
\* the root of highest priority among them.
C29_TieGoesToHighestPriority ==
    /\ (ReadLocal /\ last.pair # None)
           => FromHighestPriority(last.pair, files, last.channel,
                                  GetSearchPath(last.extend_search_path))
    /\ ListedLocal
           => \A i \in DOMAIN last.listed :
                  FromHighestPriority(last.listed[i].pair, files, last.listed[i].channel,
                                      GetSearchPath(last.extend_search_path))

\* The whole store was listed after one channel was read, both calls with
\* the same search path, and both gave the record of the site root although
\* the user root holds another record of the same version.
C29_Witness ==
    /\ ListedLocal
    /\ last.prev # None
    /\ last.prev.op = "get_local_metadata"
    /\ last.prev.extend_search_path = last.extend_search_path
    /\ last.prev.pair # None
    /\ last.prev.pair.path.root = "site"
    /\ \E i \in DOMAIN last.listed :
          /\ last.listed[i].channel = last.prev.channel
          /\ last.listed[i].pair = last.prev.pair
    /\ \E f \in Records(files, last.prev.channel) :
          /\ f.path.root = "user"
          /\ f.metadata.version = last.prev.pair.metadata.version
          /\ f.metadata # last.prev.pair.metadata

\* ------------------------------------------------------------------------ C26
\* The events of a kind in the console transcript.
Events(kind) == {i \in DOMAIN console : console[i].event = kind}

\* After view the latest text is on the console and the question is asked
\* again without the view choice.
ViewedOnce ==
    \A i \in Events("view") :
        /\ Cardinality(Events("view")) = 1
        /\ console[i].text = (IF ctx.pair.remote # None THEN ctx.pair.remote.text
                              ELSE ctx.pair.metadata.text)
        /\ i + 1 \in Events("ask")
        /\ console[i + 1].choices = <<Braced(AcceptWord), Braced(RejectWord)>>
        /\ \A j \in Events("ask") : j > i => j = i + 1
        /\ ctx.choices = <<Braced(AcceptWord), Braced(RejectWord)>>

\* The call ends with the first line that is accept or reject.
EndsAtChoice ==
    pc = "done" =>
        /\ last.op = "_prompt_acceptance"
        /\ last.response \in {AcceptWord, RejectWord}
        /\ last.result = (last.response = AcceptWord)
        /\ CheckChoice(ctx.choices, last.value) = <<last.response>>

\* C26: in the prompt for a channel view is taken at most once; after it the
\* latest text (the remote text of an outdated pair, else the pair's own) is
\* printed and only accept and reject are offered; the prompt ends, accepted
\* or rejected, with the first answer that is one of these, so it ends for
\* every user who does not go on typing lines that are no choice.
C26_ViewOnceThenDecides ==
    /\ [](ViewedOnce /\ EndsAtChoice)
    /\ <>(pc = "done")

\* The user typed a line that is no choice, viewed the text of an outdated
\* pair, asked to view again, in vain, and then rejected.
C26_Witness ==
    /\ pc = "done"
    /\ ctx.pair.remote # None
    /\ last.result = FALSE
    /\ Cardinality(Events("view")) = 1
    /\ \E i \in Events("view"), j \in Events("invalid") :
          j > i /\ console[j].value = ViewWord

\* ------------------------------------------------------------------------ C27
\* C27: with one process writing a record or a cache entry of a channel and
\* another reading it, the reader sees the file whole, as it was before the
\* write (or absent) or as it is after: the cache file it read is one of the
\* two, in particular not an empty file standing for "no ToS" when neither
\* is, and the record it got is the one read gives on the store before or on
\* the store after.
C27_ReaderSeesWholeFile ==
    (last # None /\ ctx # None /\ pc # "idle") =>
        /\ (last.op = "get_remote_metadata" /\ ctx.target = "cache")
               => /\ last.file \in {ctx.before, ctx.after}
                  /\ (IsMissingError(last.exc)
                          => \E whole \in {ctx.before, ctx.after} :
                                 whole # NoFile /\ whole.content = EmptyContent)
        /\ (last.op = "get_local_metadata" /\ ctx.target = "record")
               => last.pair \in {GetLocalMetadata(ctx.before, last.channel, <<>>),
                                 GetLocalMetadata(ctx.after, last.channel, <<>>)}

\* ------------------------------------------------------------------------ C28
\* The position of the first occurrence of a root in a sequence of roots.
FirstAt(roots, tos_root) ==
    CHOOSE i \in DOMAIN roots :
        roots[i] = tos_root /\ \A j \in 1..(i - 1) : roots[j] # tos_root

\* C28: get_search_path lists exactly the roots, built-in and extra, that
\* are directories at the time, each once, the built-in ones in their fixed
\* order before the caller's; it creates no directory.  write_metadata
\* creates the root and the channel's directory under it when missing, and
\* no other directory.
C28_SearchPathOfExistingRoots ==
    /\ (last # None /\ last.op = "get_search_path") =>
           LET asked == SEARCH_PATH \o last.extend_search_path
               search_path == last.search_path
           IN  /\ SeqToSet(search_path)
                      = {r \in SeqToSet(asked) : RootDir(r) \in last.before}
               /\ \A i, j \in DOMAIN search_path :
                      i < j => FirstAt(asked, search_path[i])
                                   < FirstAt(asked, search_path[j])
               /\ last.after = last.before
    /\ (last # None /\ last.op = "write_metadata") =>
           /\ RootDir(last.tos_root) \in last.after
           /\ ChannelDir(last.tos_root, last.channel) \in last.after
           /\ last.after = last.before \cup {RootDir(last.tos_root),
                                             ChannelDir(last.tos_root, last.channel)}

\* A write created the root only the caller names; the search path resolved
\* next, with that root given twice, lists it once, after the user root, and
\* not the site root, which does not exist.
C28_Witness ==
    /\ last # None /\ last.op = "get_search_path"
    /\ last.extend_search_path = <<"custom", "custom">>
    /\ last.search_path = <<"user", "custom">>
    /\ RootDir("site") \notin last.before
    /\ last.prev # None /\ last.prev.op = "write_metadata"
    /\ last.prev.tos_root = "custom"
    /\ RootDir("custom") \notin last.prev.before

\* ------------------------------------------------------------------------ C30
\* The run after accept_tos or reject_tos returned.
RanAfter(op) == pc = "rerun" /\ last.prev.op = op

\* The next run reports the decision: get_one_tos returns a pair with that
\* decision and _gather_tos classifies the channel by it.
ReportsAccepted ==
    /\ last.exc = None
    /\ GetattrTosAccepted(last.pair.metadata) = "true"
    /\ InAccepted(gathered, last.channel)

ReportsRejected ==
    /\ last.exc = None
    /\ GetattrTosAccepted(last.pair.metadata) = "false"
    /\ InRejected(gathered, last.channel)

\* C30: after accept_tos(channel, tos_root) returned and with the endpoint
\* unchanged, get_one_tos reports the channel as accepted and _gather_tos puts
\* it in the accepted map (after reject_tos: rejected, in the rejected list),
\* whatever the roots of the search path held before.
C30_DecisionStandsNextRun ==
    /\ RanAfter("accept_tos") => ReportsAccepted
    /\ RanAfter("reject_tos") => ReportsRejected

\* ------------------------------------------------------------------------ C31
\* The pending channel the workflow processed last, with what it resolved to
\* and the pair the decision was taken on.
LastDecided == decided[Len(decided)]

\* accept_tos or reject_tos wrote a record for the channel processed last.
WroteForLastDecided ==
    /\ decided # <<>>
    /\ last # None
    /\ last.exc = None
    /\ last.channel = LastDecided.channel
    /\ LastDecided.state \in {"ACCEPTED", "REJECTED"}

\* C31: in the pending pass the record written for a channel carries the
\* version of the latest metadata of the pair the decision was taken on, also
\* when the endpoint changed or the cache expired since gather.
C31_RecordsDecidedVersion ==
    WroteForLastDecided =>
        last.pair.metadata.version = Latest(LastDecided.pair).version

\* ------------------------------------------------------------------------ C32
\* The workflow runs where _is_tos_accepted reaches the prompt.
Prompting ==
    /\ ctx # None
    /\ ~ctx.env.auto_accept_tos
    /\ ~ctx.env.CI
    /\ ~NonInteractive(ctx.env)

\* The pending channels whose decision accept_tos or reject_tos wrote: all
\* that were processed, but the last one if its write raised.
Written ==
    {i \in DOMAIN decided : i < Len(decided) \/ last.exc = None}

\* The store holds a record of the decision under tos_root.
Persisted(i) ==
    \E f \in files :
        /\ f.path.root = ctx.tos_root
        /\ f.path.channel = decided[i].channel
        /\ f.metadata.tos_accepted = (decided[i].state = "ACCEPTED")

\* C32: in the interactive pending pass a rejection does not end the pass: the
\* remaining pending channels are prompted, every decision is written when it
\* is given, CondaToSRejectedError is raised only after the last pending
\* channel, and the acceptances of the pass stay written.
C32_RejectionDoesNotStopPass ==
    (Prompting /\ decided # <<>>) =>
        /\ \A i \in DOMAIN decided :
              /\ decided[i].state \in {"ACCEPTED", "REJECTED"}
              /\ console[i].event = "prompt" /\ console[i].channel = decided[i].channel
        /\ \A i \in Written : Persisted(i)
        /\ pc = "process" => (raised = None /\ channel_pairs # <<>>)
        /\ last.exc = None =>
              Len(decided) + Len(channel_pairs) = Len(gathered.channel_pairs)
        /\ (raised # None /\ raised.type = "CondaToSRejectedError") =>
              /\ channel_pairs = <<>>
              /\ Len(decided) = Len(gathered.channel_pairs)
        /\ (pc = "done" /\ last.exc = None /\ ResolvedTo("REJECTED") # {}) =>
              (raised # None /\ raised.type = "CondaToSRejectedError")

\* The first pending channel was rejected, the second then accepted, and the
\* pass ended with CondaToSRejectedError naming the first only.
C32_Witness ==
    /\ Prompting
    /\ pc = "done"
    /\ Len(decided) = 2
    /\ decided[1].state = "REJECTED"
    /\ decided[2].state = "ACCEPTED"
    /\ raised # None
    /\ raised.type = "CondaToSRejectedError"
    /\ raised.channels = <<decided[1].channel>>
    /\ files0 = {}
    /\ Persisted(1)
    /\ Persisted(2)

\* ------------------------------------------------------------------------ C33
\* The record get_local_metadata gave for the channel when the workflow
\* started, None without one.
LocalAtStart(channel) == GetLocalMetadata(files0, channel, <<ctx.tos_root>>)

\* The channel had a standing rejection when the workflow started.
StandingRejection(channel) ==
    /\ LocalAtStart(channel) # None
    /\ LocalAtStart(channel).metadata.tos_accepted = FALSE

\* What gather saw of the channel.
SeenOf(channel) ==
    Only({gathered.seen[i] : i \in {j \in DOMAIN gathered.seen :
                                       gathered.seen[j].channel = channel}})

\* The fetch of gather gave a version strictly newer than the local one.
NewerPublished(channel) ==
    /\ SeenOf(channel).fetched.metadata # None
    /\ SeenOf(channel).fetched.metadata.version > LocalAtStart(channel).metadata.version

NewestVersion(store, channel, tos_root) ==
    LET newest == GetLocalMetadata(store, channel, <<tos_root>>)
    IN  IF newest = None THEN 0 ELSE newest.metadata.version

\* accept_tos or reject_tos wrote a record in the current command.
WroteRecord ==
    /\ last # None
    /\ last.op \in {"accept_tos", "reject_tos"}
    /\ last.exc = None

\* C34: over sequences of accept_tos, reject_tos and workflow runs the version
\* of the newest local record of a channel never decreases: a write uses a
\* version at least the newest local version the command found, and nothing
\* is removed.
C34_NewestVersionNeverDecreases ==
    /\ \A tos_root \in LocalRoots :
          NewestVersion(files, "c1", tos_root) >= NewestVersion(files0, "c1", tos_root)
    /\ WroteRecord =>
          /\ last.pair.metadata.version >= NewestVersion(files0, "c1", last.tos_root)
          /\ NewestVersion(files, "c1", last.tos_root) = last.pair.metadata.version

\* A later command that wrote a record although the endpoint then gave an
\* older version than the newest local record.
C34_Witness ==
    /\ WroteRecord
    /\ envs >= 1
    /\ endpoint["c1"] \in Payloads
    /\ endpoint["c1"].version < NewestVersion(files0, "c1", last.tos_root)
    /\ \E f \in files0 : f.path.root # last.tos_root
                         /\ f.path.version = NewestVersion(files0, "c1", last.tos_root)

\* ------------------------------------------------------------------------ C35
\* The channels of the three outputs of gather, in their order.
AcceptedChannels == [i \in DOMAIN gathered.accepted |-> gathered.accepted[i].channel]
RejectedChannels == gathered.rejected
PendingChannels == [i \in DOMAIN gathered.channel_pairs |-> gathered.channel_pairs[i].channel]

NoDuplicates(s) == \A i, j \in DOMAIN s : s[i] = s[j] => i = j

\* The channels an input stands for, and the position at which the input
\* names a channel first.
StandsFor(channel) == IF channel = "defaults" THEN {"c1", "c2"} ELSE {channel}
FirstNamed(channel) ==
    CHOOSE i \in DOMAIN ctx.channels :
        /\ channel \in StandsFor(ctx.channels[i])
        /\ \A j \in 1..(i - 1) : channel \notin StandsFor(ctx.channels[j])

\* Within one input the multichannel names c1 before c2.
NamedBefore(a, b) ==
    \/ FirstNamed(a) < FirstNamed(b)
    \/ FirstNamed(a) = FirstNamed(b) /\ a = "c1" /\ b = "c2"

InNamedOrder(s) == \A i, j \in DOMAIN s : i < j => NamedBefore(s[i], s[j])

\* C35: the three outputs of gather are pairwise disjoint and without
\* duplicates: every channel the input stands for, however often it is named,
\* is in at most one output, at most once, and each output lists its
\* channels in the order in which the input names them first.
C35_GatherOutputsDisjoint ==
    (gathered # None /\ ctx # None) =>
        /\ NoDuplicates(AcceptedChannels)
        /\ NoDuplicates(RejectedChannels)
        /\ NoDuplicates(PendingChannels)
        /\ SeqToSet(AcceptedChannels) \cap SeqToSet(RejectedChannels) = {}
        /\ SeqToSet(AcceptedChannels) \cap SeqToSet(PendingChannels) = {}
        /\ SeqToSet(RejectedChannels) \cap SeqToSet(PendingChannels) = {}
        /\ SeqToSet(AcceptedChannels \o RejectedChannels \o PendingChannels)
              \subseteq UNION {StandsFor(ctx.channels[i]) : i \in DOMAIN ctx.channels}
        /\ InNamedOrder(AcceptedChannels)
        /\ InNamedOrder(RejectedChannels)
        /\ InNamedOrder(PendingChannels)

\* c2 named first, then the multichannel, then c1: both channels pending, c2
\* before c1, each once.
C35_Witness ==
    /\ gathered # None
    /\ ctx # None
    /\ ctx.channels = <<"c2", "defaults", "c1">>
    /\ PendingChannels = <<"c2", "c1">>

\* ------------------------------------------------------------------------ C36
\* What the prompt compares with the choices: the line without parentheses
\* and surrounding whitespace, in lower case.
Typed(value) == Lower(StripBraces(value))

ResolvedBy(value, word) == Typed(value) # <<>> /\ StartsWith(word, Typed(value))

\* C36: the prompt resolves a line to a choice only if the line, without
\* parentheses and surrounding whitespace and in lower case, is a non-empty
\* prefix of the choice; an empty or blank line is answered as invalid and
\* never resolves to accept.
C36_OnlyNonEmptyPrefixResolves ==
    /\ (pc = "done" /\ last # None /\ last.op = "_prompt_acceptance") =>
          ResolvedBy(last.value, last.response)
    /\ \A i \in DOMAIN console :
          console[i].event = "view" => ResolvedBy(console[i].value, ViewWord)

\* ------------------------------------------------------------------------ C37
\* The words of the claim, on the environment of the process.
SetTo(var, words) == ctx.environ[var] # <<>> /\ ctx.environ[var][1] \in words

SomeBooleanFalse ==
    \E i \in DOMAIN CI_BOOLEAN_VARS : SetTo(CI_BOOLEAN_VARS[i], {"false", "0", "no", "off"})

SomeBooleanTrue ==
    \E i \in DOMAIN CI_BOOLEAN_VARS : SetTo(CI_BOOLEAN_VARS[i], {"true", "1", "yes", "on"})

SomePresence ==
    \E i \in DOMAIN CI_PRESENCE_VARS :
        ctx.environ[CI_PRESENCE_VARS[i]] \notin {<<>>, <<"">>}

ContainerAndPartial ==
    /\ ctx.pid = 1 \/ ctx.environ["CONTAINER"] \notin {<<>>, <<"">>} \/ ctx.cgroup = "docker"
    /\ \E i \in DOMAIN PARTIAL_CI_VARS : ctx.environ[PARTIAL_CI_VARS[i]] \notin {<<>>, <<"">>}

\* C37: _is_ci returns false when some boolean CI variable is set to a
\* non-empty false value, whatever else is set; otherwise it returns true
\* exactly when some boolean CI variable is true, or a presence-based
\* variable is set, or a container indicator and a partial CI variable are
\* both present.
C37_CiDetectionHonoursOverride ==
    (pc = "done" /\ last # None /\ last.op = "_is_ci") =>
        /\ last.exc = None
        /\ last.value = IF SomeBooleanFalse THEN FALSE
                        ELSE SomeBooleanTrue \/ SomePresence \/ ContainerAndPartial

====
